---- MODULE Spec2Model ----
(***************************************************************************)
(* A model of the e2e metrics Grabber (package metrics): construction by   *)
(* NewMetricsGrabber, the per-component GrabFromX methods with their       *)
(* sync.Once readiness gates, and Grab(), which collects every enabled     *)
(* component into one Collection and one aggregate error.                  *)
(*                                                                         *)
(* After it come three smaller programs of the repository, each with its   *)
(* own variable and its own specification: numaPodResources and            *)
(* checkNUMAAlignment (test/e2e_node), Options of package logs with the    *)
(* log-format registry, and TestTotals of package value.                   *)
(*                                                                         *)
(* The cluster is the environment: every listing, readiness wait and       *)
(* metrics request either fails or answers, and an answer is a body that   *)
(* either parses or does not.  Every body carries the identity of the      *)
(* request that produced it, so that two bodies are never confused.        *)
(***************************************************************************)
EXTENDS Naturals, Integers, Sequences, FiniteSets, TLC

VARIABLES
    grabber,   \* the Grabber's fields set by NewMetricsGrabber
    ctor,      \* the NewMetricsGrabber call: its state, its error, its requests
    args,      \* the arguments NewMetricsGrabber was called with
    once,      \* the three sync.Once guards of the Grabber
    gate,      \* history: how often each guard's body ran, and how it ended
    th,        \* one frame per calling goroutine
    numa,      \* a pod's NUMA resources and the alignment check made of them
    logs,      \* the log-format registry and one Options value
    totals     \* the transformation counters and the test that reads them

vars == <<grabber, ctor, args, once, gate, th, numa, logs, totals>>

(***************************************************************************)
(* Bounds of the model.                                                    *)
(***************************************************************************)
MaxPods == 3        \* pods in the kube-system listing
MaxPolls == 2       \* attempts wait.PollImmediate makes before its timeout
MaxGrabs == 2       \* calls each goroutine makes
MaxNodes == 1       \* nodes in the node listing, all components collected
MaxFanOut == 3      \* nodes in the node listing, kubelets collected alone
MaxCPUs == 2        \* CPUs in a pod's CPUToNUMANode map
MaxDevs == 1        \* devices in a pod's PCIDevsToNUMANode map
MaxNUMANode == 1    \* the highest NUMA node number an entry holds
MaxLines == 3       \* lines in the environment a pod printed
MaxPrior == 1       \* operations counted in a series before TestTotals

(***************************************************************************)
(* Program constants.                                                      *)
(***************************************************************************)
kubeSchedulerPort == 10259
kubeControllerManagerPort == 10257
snapshotControllerPort == 9102
clusterAutoscalerPort == 8085
MaxPort == 65535
metricsProxyPod == <<"metrics-proxy">>

(***************************************************************************)
(* Pod names are sequences of segments; the empty sequence is "".          *)
(* regexp.MatchString is unanchored: "lit.*" matches a name that contains  *)
(* lit anywhere.                                                           *)
(***************************************************************************)
EmptyName == << >>

regKubeScheduler == "kube-scheduler-"
regKubeControllerManager == "kube-controller-manager-"
regSnapshotController == "volume-snapshot-controller"

MatchString(lit, name) == \E i \in 1..Len(name) : name[i] = lit

PodNames ==
    { <<"kube-scheduler-", "m1">>,
      <<"kube-scheduler-", "m2">>,
      <<"kube-controller-manager-", "m1">>,
      <<"volume-snapshot-controller", "-0">>,
      <<"coredns-", "x">>,
      <<"my-", "kube-scheduler-", "kube-controller-manager-", "x">> }

RECURSIVE SeqsUpTo(_, _)
SeqsUpTo(S, n) ==
    IF n = 0 THEN { << >> }
    ELSE LET shorter == SeqsUpTo(S, n - 1)
         IN shorter \cup { Append(s, x) : s \in shorter, x \in S }

PodLists == SeqsUpTo(PodNames, MaxPods)

(***************************************************************************)
(* NewMetricsGrabber.                                                      *)
(***************************************************************************)
NilGrabber ==
    [ isNil |-> TRUE,
      externalClient |-> FALSE,
      grabFromAPIServer |-> FALSE,
      grabFromControllerManager |-> FALSE,
      grabFromKubelets |-> FALSE,
      grabFromScheduler |-> FALSE,
      grabFromClusterAutoscaler |-> FALSE,
      grabFromSnapshotController |-> FALSE,
      kubeScheduler |-> EmptyName,
      kubeControllerManager |-> EmptyName,
      snapshotController |-> EmptyName ]

NoNames ==
    [ kubeScheduler |-> EmptyName,
      kubeControllerManager |-> EmptyName,
      snapshotControllerManager |-> EmptyName ]

\* One iteration of the loop over podList.Items: the three MatchString tests.
MatchPod(names, pod) ==
    LET a == IF MatchString(regKubeScheduler, pod)
             THEN [names EXCEPT !.kubeScheduler = pod] ELSE names
        b == IF MatchString(regKubeControllerManager, pod)
             THEN [a EXCEPT !.kubeControllerManager = pod] ELSE a
    IN IF MatchString(regSnapshotController, pod)
       THEN [b EXCEPT !.snapshotControllerManager = pod] ELSE b

\* LocatePods, were the loop left once the scheduler's and the
\* controller-manager's names are set.
RECURSIVE LocatePodsLeavingEarly(_, _, _)
LocatePodsLeavingEarly(items, i, names) ==
    IF i > Len(items) THEN names
    ELSE LET next == MatchPod(names, items[i])
         IN IF /\ next.kubeScheduler # EmptyName
               /\ next.kubeControllerManager # EmptyName
            THEN next
            ELSE LocatePodsLeavingEarly(items, i + 1, next)

\* The loop over podList.Items, with its break once all three names are set.
RECURSIVE LocatePods(_, _, _)
LocatePods(items, i, names) ==
    IF i > Len(items) THEN names
    ELSE LET next == MatchPod(names, items[i])
         IN IF /\ next.kubeScheduler # EmptyName
               /\ next.kubeControllerManager # EmptyName
               /\ next.snapshotControllerManager # EmptyName
            THEN next
            ELSE LocatePods(items, i + 1, next)

\* The six booleans a caller passes.
Wants ==
    [ kubelets : BOOLEAN, scheduler : BOOLEAN, controllers : BOOLEAN,
      apiServer : BOOLEAN, clusterAutoscaler : BOOLEAN,
      snapshotController : BOOLEAN ]

\* The arguments of a call, and what the pod listing answers.
Args(listOK, podList, ec, w) ==
    [ called |-> TRUE, listOK |-> listOK, podList |-> podList, ec |-> ec,
      kubelets |-> w.kubelets, scheduler |-> w.scheduler,
      controllers |-> w.controllers, apiServer |-> w.apiServer,
      clusterAutoscaler |-> w.clusterAutoscaler,
      snapshotController |-> w.snapshotController ]

NoArgs ==
    [ called |-> FALSE, listOK |-> FALSE, podList |-> << >>, ec |-> FALSE,
      kubelets |-> FALSE, scheduler |-> FALSE, controllers |-> FALSE,
      apiServer |-> FALSE, clusterAutoscaler |-> FALSE,
      snapshotController |-> FALSE ]

\* ListFailed, were the listing tried once more before giving up.
ListFailedAfterRetry(a) ==
    [ grabber |-> NilGrabber,
      ctor |-> [state |-> "failed", err |-> <<"listpods">>,
                lists |-> 2, others |-> 0] ]

\* The return on a failed listing: no Grabber, the listing's error.
ListFailed(a) ==
    [ grabber |-> NilGrabber,
      ctor |-> [state |-> "failed", err |-> <<"listpods">>,
                lists |-> 1, others |-> 0] ]

\* StoredFlag, were the caller's request stored as it is.
StoredFlagAsRequested(requested, name) == requested

\* The flag a gated component is stored with: forced off without a pod.
StoredFlag(requested, name) == IF name = EmptyName THEN FALSE ELSE requested

\* The Grabber built after a successful listing.
Built(a) ==
    LET names == LocatePods(a.podList, 1, NoNames)
    IN [ grabber |->
           [ isNil |-> FALSE,
             externalClient |-> a.ec,
             grabFromAPIServer |-> a.apiServer,
             grabFromControllerManager |->
                 StoredFlag(a.controllers, names.kubeControllerManager),
             grabFromKubelets |-> a.kubelets,
             grabFromScheduler |-> StoredFlag(a.scheduler, names.kubeScheduler),
             grabFromClusterAutoscaler |-> a.clusterAutoscaler,
             grabFromSnapshotController |->
                 StoredFlag(a.snapshotController, names.snapshotControllerManager),
             kubeScheduler |-> names.kubeScheduler,
             kubeControllerManager |-> names.kubeControllerManager,
             snapshotController |-> names.snapshotControllerManager ],
         ctor |-> [state |-> "ready", err |-> << >>, lists |-> 1, others |-> 0] ]

NewMetricsGrabberResult(a) == IF ~a.listOK THEN ListFailed(a) ELSE Built(a)

HasControlPlanePods(g) ==
    g.kubeScheduler # EmptyName /\ g.kubeControllerManager # EmptyName


(***************************************************************************)
(* Components, bodies, metrics and errors.                                 *)
(***************************************************************************)
APIServer == "APIServer"
Scheduler == "Scheduler"
ControllerManager == "ControllerManager"
SnapshotController == "SnapshotController"
ClusterAutoscaler == "ClusterAutoscaler"
Kubelets == "Kubelets"

\* GrabOrder, were the kubelets' block the first of Grab().
GrabOrderKubeletsFirst ==
    <<Kubelets, APIServer, Scheduler, ControllerManager, SnapshotController,
      ClusterAutoscaler>>

\* The order of the six blocks of Grab().
GrabOrder ==
    <<APIServer, Scheduler, ControllerManager, SnapshotController,
      ClusterAutoscaler, Kubelets>>

Components == { GrabOrder[i] : i \in 1..Len(GrabOrder) }
Gated == {Scheduler, ControllerManager, SnapshotController}
Single == Components \ {Kubelets}

Threads == {1, 2}

\* The flag as stored in the Grabber.
FlagOf(g, c) ==
    CASE c = APIServer -> g.grabFromAPIServer
      [] c = Scheduler -> g.grabFromScheduler
      [] c = ControllerManager -> g.grabFromControllerManager
      [] c = SnapshotController -> g.grabFromSnapshotController
      [] c = ClusterAutoscaler -> g.grabFromClusterAutoscaler
      [] c = Kubelets -> g.grabFromKubelets

\* Enabled, were Grab() to enter the cluster autoscaler's block unasked.
EnabledOrAutoscaler(g, c) == c = ClusterAutoscaler \/ FlagOf(g, c)

\* The test at the head of each block of Grab().
Enabled(g, c) == FlagOf(g, c)

\* The pod name NewMetricsGrabber recorded for a gated component.
Located(g, c) ==
    CASE c = Scheduler -> g.kubeScheduler
      [] c = ControllerManager -> g.kubeControllerManager
      [] c = SnapshotController -> g.snapshotController

NoErr == << >>

\* The body of an answered request; "" is the zero value of a string.
EmptyText == [id |-> << >>, valid |-> TRUE]

\* The zero value of a metrics struct, and of the Collection.
ZeroMetrics == [isNil |-> TRUE, from |-> << >>]
NilMap == [isNil |-> TRUE, m |-> << >>]
EmptyMap == [isNil |-> FALSE, m |-> << >>]
ZeroCollection ==
    [c \in Components |-> IF c = Kubelets THEN NilMap ELSE ZeroMetrics]

\* parseXMetrics: the metrics of a body, or an error and the zero value.  An
\* empty body holds no sample and parses to metrics without any.
Parse(c, text) ==
    IF text.valid
    THEN [metrics |-> [isNil |-> FALSE, from |-> text.id], err |-> NoErr]
    ELSE [metrics |-> ZeroMetrics, err |-> <<c, "parse">>]

(***************************************************************************)
(* A goroutine's frame: the call it is in, the locals of the GrabFromX it  *)
(* is in, what Grab() has collected so far, and the requests of the call.  *)
(***************************************************************************)
\* GrabFromSnapshotController("", 0): no override.
NoOverride == [podName |-> EmptyName, port |-> 0]

IdleFrame ==
    [ op |-> "idle",          \* idle, Grab or direct (a GrabFromX call)
      calls |-> 0,            \* calls made so far
      gpc |-> 0,              \* the block of Grab() it is at
      cur |-> "none",         \* the component whose GrabFromX it is in
      cpc |-> "none",         \* start, ready, poll, wait, after
      err |-> NoErr,          \* var err error
      output |-> EmptyText,   \* var output string
      podName |-> EmptyName,
      port |-> 0,
      polls |-> 0,            \* failed attempts of the running poll
      ran |-> {},             \* the guards whose body this call executed
      waited |-> {},          \* the guards this call found running
      last |-> "none",        \* the GrabFromX that returned last, and
      ret |-> [metrics |-> ZeroMetrics, err |-> NoErr],   \* what it returned
      result |-> ZeroCollection,
      errs |-> << >>,
      rerr |-> << >>,         \* the error Grab() returned
      returned |-> FALSE,     \* Grab() has returned
      nodes |-> << >>,        \* nodes.Items
      ni |-> 0,
      tried |-> {},           \* the components whose GrabFromX this call entered
      failed |-> {},          \* those of which a wait, request or parse failed
      log |-> << >>,          \* the requests of the GrabFromX entered last
      arg |-> NoOverride,     \* the podName and port the GrabFromX was given
      cancelled |-> FALSE ]   \* the caller has given up on the call

\* A request or wait made on the cluster.
Req(c, kind, ext, ns, pod, port, ok, body, inGate) ==
    [ comp |-> c, kind |-> kind, ext |-> ext, ns |-> ns, pod |-> pod,
      port |-> port, ok |-> ok, body |-> body, inGate |-> inGate ]

\* The body of the next request of frame f of goroutine t, to component c.
Body(t, f, c, valid) ==
    [id |-> <<t, f.calls, c, Len(f.log) + 1>>, valid |-> valid]

\* An outcome of one metrics request: failed, or answered with a body.
Outcomes == {"fail", "good", "bad"}
TextOf(t, f, c, o) ==
    IF o = "fail" THEN EmptyText ELSE Body(t, f, c, o = "good")

\* Collect, were Grab() to give up at the first error.
CollectOrAbort(f, c, ret) ==
    IF ret.err # NoErr
    THEN [f EXCEPT !.errs = Append(@, ret.err), !.gpc = Len(GrabOrder)]
    ELSE [f EXCEPT !.result[c] = ret.metrics]

\* Collect, were the field set to an empty metrics value on an error too.
CollectSettingField(f, c, ret) ==
    IF ret.err # NoErr
    THEN [f EXCEPT !.errs = Append(@, ret.err),
                   !.result[c] = [isNil |-> FALSE, from |-> << >>]]
    ELSE [f EXCEPT !.result[c] = ret.metrics]

\* Grab(): what one block does with what GrabFromX returned.
Collect(f, c, ret) ==
    IF ret.err # NoErr
    THEN [f EXCEPT !.errs = Append(@, ret.err)]
    ELSE [f EXCEPT !.result[c] = ret.metrics]

\* Grab(): on to the next block.
Advance(f) ==
    [f EXCEPT !.gpc = @ + 1,
              !.cur = IF f.gpc + 1 <= Len(GrabOrder)
                      THEN GrabOrder[f.gpc + 1] ELSE "none",
              !.cpc = "start", !.err = NoErr, !.output = EmptyText,
              !.podName = EmptyName, !.port = 0, !.polls = 0]

\* GrabFromX is entered for component c.
Begin(f, c) == [f EXCEPT !.log = << >>, !.tried = @ \cup {c}]

\* GrabFromX returns ret: to Grab(), which collects it, or to the caller.
\* bad: a wait, a request or a parse of this call failed.
Return(f, c, ret, bad) ==
    LET r == [f EXCEPT !.last = c, !.ret = ret,
                       !.failed = IF bad THEN @ \cup {c} ELSE @]
    IN IF f.op = "Grab"
       THEN Advance(Collect(r, c, ret))
       ELSE [r EXCEPT !.op = "idle", !.cur = "none", !.cpc = "none",
                      !.err = NoErr, !.output = EmptyText,
                      !.podName = EmptyName, !.port = 0, !.polls = 0]

\* A goroutine is at the first statement of GrabFromX for c.
AtStart(t, c) ==
    /\ th[t].op \in {"Grab", "direct"}
    /\ th[t].cur = c
    /\ th[t].cpc = "start"
    /\ th[t].op = "Grab" => Enabled(grabber, c)

Fresh(f, op) ==
    [IdleFrame EXCEPT !.op = op, !.calls = f.calls + 1]

\* Grab() is called: result := Collection{}, errs := nil.
GrabCall(t) ==
    /\ ctor.state = "ready"
    /\ th[t].op = "idle"
    /\ th[t].calls < MaxGrabs
    /\ th' = [th EXCEPT ![t] =
                [Fresh(th[t], "Grab") EXCEPT !.gpc = 1, !.cur = GrabOrder[1],
                                             !.cpc = "start"]]
    /\ UNCHANGED <<grabber, ctor, args, once, gate, numa, logs, totals>>

\* Grab(): the block of a component whose flag is off is not entered.
GrabSkip(t) ==
    /\ th[t].op = "Grab"
    /\ th[t].cur \in Components
    /\ th[t].cpc = "start"
    /\ ~Enabled(grabber, th[t].cur)
    /\ th' = [th EXCEPT ![t] = Advance(th[t])]
    /\ UNCHANGED <<grabber, ctor, args, once, gate, numa, logs, totals>>

\* Grab() returns result and the aggregate of errs, nil when there is none.
GrabReturn(t) ==
    /\ th[t].op = "Grab"
    /\ th[t].gpc = Len(GrabOrder) + 1
    /\ th' = [th EXCEPT ![t] =
                [th[t] EXCEPT !.op = "idle", !.gpc = 0, !.cpc = "none",
                              !.rerr = th[t].errs, !.returned = TRUE]]
    /\ UNCHANGED <<grabber, ctor, args, once, gate, numa, logs, totals>>

\* GrabFromAPIServer: what it returns for the outcome of its request.
APIServerRet(o, text) ==
    IF o = "fail" THEN [metrics |-> ZeroMetrics, err |-> NoErr]
    ELSE Parse(APIServer, text)

GrabFromAPIServer(t) ==
    /\ AtStart(t, APIServer)
    /\ \E o \in Outcomes :
         LET f == Begin(th[t], APIServer)
             text == TextOf(t, f, APIServer, o)
             logged == [f EXCEPT !.log = Append(@,
                          Req(APIServer, "metrics", FALSE, "", <<"apiserver">>,
                              0, o # "fail", text, FALSE))]
         IN th' = [th EXCEPT ![t] =
                     Return(logged, APIServer, APIServerRet(o, text),
                            o # "good")]
    /\ UNCHANGED <<grabber, ctor, args, once, gate, numa, logs, totals>>


(***************************************************************************)
(* The gated components: scheduler, controller-manager and                 *)
(* snapshot-controller.                                                    *)
(***************************************************************************)
KubeSystem == "kube-system"
Kubemark == "kubemark"

\* GrabFromSnapshotController: the overrides, or the defaults.
ResolvePodName(g, podName) ==
    IF podName = EmptyName THEN g.snapshotController ELSE podName

\* ResolvePort, were the port argument not looked at.
ResolvePortDefault(port) == snapshotControllerPort

ResolvePort(port) == IF port = 0 THEN snapshotControllerPort ELSE port

\* The arguments Grab() passes to GrabFromSnapshotController.
GrabArgPodName(g) == g.snapshotController
GrabArgPort == snapshotControllerPort

\* The local podName and port of a gated GrabFromX once past its first lines.
LocalPodName(g, f, c) ==
    CASE c = Scheduler -> EmptyName
      [] c = ControllerManager -> g.kubeControllerManager
      [] c = SnapshotController ->
           ResolvePodName(g, IF f.op = "Grab" THEN GrabArgPodName(g)
                             ELSE f.podName)
LocalPort(f, c) ==
    CASE c = Scheduler -> 0
      [] c = ControllerManager -> 0
      [] c = SnapshotController ->
           ResolvePort(IF f.op = "Grab" THEN GrabArgPort ELSE f.port)

\* The podName and port a GrabFromX was called with.
GivenArgs(g, f, c) ==
    IF c # SnapshotController THEN NoOverride
    ELSE IF f.op = "Grab"
    THEN [podName |-> GrabArgPodName(g), port |-> GrabArgPort]
    ELSE [podName |-> f.podName, port |-> f.port]

\* The pod and port the poll inside the guard asks for metrics.
ProbePod(f, c) == IF c = SnapshotController THEN f.podName ELSE metricsProxyPod
ProbePort(f, c) ==
    CASE c = Scheduler -> kubeSchedulerPort
      [] c = ControllerManager -> kubeControllerManagerPort
      [] c = SnapshotController -> f.port

\* OnceDo, were every caller to run the body.
OnceDoUnguarded(o, c) == IF c = Scheduler THEN "poll" ELSE "ready"

\* sync.Once.Do, seen by a caller: run the body, wait for it, or pass.
OnceDo(o, c) ==
    CASE o[c] = "unused" -> IF c = Scheduler THEN "poll" ELSE "ready"
      [] o[c] = "running" -> "wait"
      [] o[c] = "done" -> "after"

\* OnceReturn, were the guard to stay locked after its body.
OnceReturnLocked(o, c) == o

\* OnceReturn, were the guard to be armed again after its body.
OnceReturnRearmed(o, c) == [o EXCEPT ![c] = "unused"]

\* sync.Once.Do when its body returns: the guard is done, waiters go on.
OnceReturn(o, c) == [o EXCEPT ![c] = "done"]

\* The first lines of a gated GrabFromX, up to and into once.Do.
Enter(t, c) ==
    /\ AtStart(t, c)
    /\ LET f == Begin(th[t], c) IN
       IF Located(grabber, c) = EmptyName
       THEN /\ th' = [th EXCEPT ![t] =
                        Return(f, c, [metrics |-> ZeroMetrics,
                                      err |-> <<c, "notregistered">>], TRUE)]
            /\ UNCHANGED <<once, gate, numa, logs, totals>>
       ELSE LET to == OnceDo(once, c)
                g == [f EXCEPT !.podName = LocalPodName(grabber, f, c),
                               !.port = LocalPort(f, c),
                               !.arg = GivenArgs(grabber, f, c),
                               !.cpc = to]
            IN /\ th' = [th EXCEPT ![t] =
                           CASE to = "wait" -> [g EXCEPT !.waited = @ \cup {c}]
                             [] to = "after" -> g
                             [] OTHER -> [g EXCEPT !.ran = @ \cup {c}]]
               /\ once' = IF to \in {"poll", "ready"}
                          THEN [once EXCEPT ![c] = "running"] ELSE once
               /\ gate' = IF to \in {"poll", "ready"}
                          THEN [gate EXCEPT ![c].runs = @ + 1,
                                            ![c].pod = ProbePod(g, c)]
                          ELSE gate
    /\ UNCHANGED <<grabber, ctor, args, numa, logs, totals>>

\* e2epod.WaitForPodsReady waits up to its own timeout: it returns, with the
\* pod ready or with an error.
PodsReadyOutcomes == BOOLEAN

\* Inside the guard: e2epod.WaitForPodsReady on the component's pod.
WaitForPodsReady(t, c) ==
    /\ th[t].cur = c
    /\ th[t].cpc = "ready"
    /\ \E ok \in PodsReadyOutcomes :
         LET f == th[t]
             logged == [f EXCEPT !.log = Append(@,
                          Req(c, "ready", FALSE, KubeSystem, f.podName, 0, ok,
                              EmptyText, TRUE))]
         IN IF ok
            THEN /\ th' = [th EXCEPT ![t] = [logged EXCEPT !.cpc = "poll"]]
                 /\ UNCHANGED <<once, gate, numa, logs, totals>>
            ELSE /\ th' = [th EXCEPT ![t] =
                             [logged EXCEPT !.cpc = "after",
                                            !.err = <<c, "ready">>]]
                 /\ once' = OnceReturn(once, c)
                 /\ gate' = [gate EXCEPT ![c].outcome = "fail",
                                         ![c].err = <<c, "ready">>]
    /\ UNCHANGED <<grabber, ctor, args, numa, logs, totals>>

\* What the poll's condition function leaves in output.
ProbeOutput(f, c, text) == IF c = SnapshotController THEN f.output ELSE text

\* Inside the guard: one attempt of wait.PollImmediate, which ends the poll
\* when the request is answered or when the timeout has passed.
PollImmediate(t, c) ==
    /\ th[t].cur = c
    /\ th[t].cpc = "poll"
    /\ \E o \in Outcomes :
         LET f == th[t]
             text == TextOf(t, f, c, o)
             logged == [f EXCEPT !.log = Append(@,
                          Req(c, "metrics", FALSE, KubeSystem, ProbePod(f, c),
                              ProbePort(f, c), o # "fail", text, TRUE))]
         IN IF o # "fail"
            THEN /\ th' = [th EXCEPT ![t] =
                             [logged EXCEPT !.cpc = "after",
                                            !.output = ProbeOutput(f, c, text)]]
                 /\ once' = OnceReturn(once, c)
                 /\ gate' = [gate EXCEPT ![c].outcome = "ok"]
            ELSE IF f.polls + 1 < MaxPolls
            THEN /\ th' = [th EXCEPT ![t] = [logged EXCEPT !.polls = @ + 1]]
                 /\ UNCHANGED <<once, gate, numa, logs, totals>>
            ELSE /\ th' = [th EXCEPT ![t] =
                             [logged EXCEPT !.cpc = "after",
                                            !.polls = @ + 1,
                                            !.err = <<c, "timeout">>]]
                 /\ once' = OnceReturn(once, c)
                 /\ gate' = [gate EXCEPT ![c].outcome = "fail",
                                         ![c].err = <<c, "timeout">>]
    /\ UNCHANGED <<grabber, ctor, args, numa, logs, totals>>

\* A caller that found the guard running goes on when the body has returned.
OnceBlocked(t, c) ==
    /\ th[t].cur = c
    /\ th[t].cpc = "wait"
    /\ once[c] = "done"
    /\ th' = [th EXCEPT ![t].cpc = "after"]
    /\ UNCHANGED <<grabber, ctor, args, once, gate, numa, logs, totals>>

\* AfterRet, were the error left by the guard's body not looked at.
AfterRetDroppingErr(f, c, o, text) ==
    IF c # SnapshotController THEN Parse(c, f.output)
    ELSE IF o = "fail" THEN [metrics |-> ZeroMetrics, err |-> <<c, "fetch">>]
    ELSE Parse(c, text)

\* What a gated GrabFromX returns after once.Do, given the outcome of the
\* request it makes there (the snapshot-controller's only).
AfterRet(f, c, o, text) ==
    IF f.err # NoErr THEN [metrics |-> ZeroMetrics, err |-> f.err]
    ELSE IF c # SnapshotController THEN Parse(c, f.output)
    ELSE IF o = "fail" THEN [metrics |-> ZeroMetrics, err |-> <<c, "fetch">>]
    ELSE Parse(c, text)

\* The request a gated GrabFromX makes after once.Do.
FetchesAfter(f, c) == f.err = NoErr /\ c = SnapshotController

AfterOnce(t, c) ==
    /\ th[t].cur = c
    /\ th[t].cpc = "after"
    /\ \E o \in IF FetchesAfter(th[t], c) THEN Outcomes ELSE {"fail"} :
         LET f == th[t]
             text == TextOf(t, f, c, o)
             ret == AfterRet(f, c, o, text)
             logged == IF FetchesAfter(f, c)
                       THEN [f EXCEPT !.log = Append(@,
                               Req(c, "metrics", FALSE, KubeSystem, f.podName,
                                   f.port, o # "fail", text, FALSE))]
                       ELSE f
         IN th' = [th EXCEPT ![t] = Return(logged, c, ret, ret.err # NoErr)]
    /\ UNCHANGED <<grabber, ctor, args, once, gate, numa, logs, totals>>


(***************************************************************************)
(* The cluster autoscaler.                                                 *)
(***************************************************************************)
\* SkipsAutoscaler, were the external client not looked at.
SkipsAutoscalerWithoutPods(g) == ~HasControlPlanePods(g)

\* GrabFromClusterAutoscaler gives up before any request.
SkipsAutoscaler(g) == ~HasControlPlanePods(g) /\ ~g.externalClient

ClusterAutoscalerRet(g, o, text) ==
    IF SkipsAutoscaler(g)
    THEN [metrics |-> ZeroMetrics, err |-> <<ClusterAutoscaler, "nocontrolplane">>]
    ELSE IF o = "fail"
    THEN [metrics |-> ZeroMetrics, err |-> <<ClusterAutoscaler, "fetch">>]
    ELSE Parse(ClusterAutoscaler, text)

GrabFromClusterAutoscaler(t) ==
    /\ AtStart(t, ClusterAutoscaler)
    /\ \E o \in IF SkipsAutoscaler(grabber) THEN {"fail"} ELSE Outcomes :
         LET f == Begin(th[t], ClusterAutoscaler)
             text == TextOf(t, f, ClusterAutoscaler, o)
             ret == ClusterAutoscalerRet(grabber, o, text)
             logged == IF SkipsAutoscaler(grabber) THEN f
                       ELSE [f EXCEPT !.log = Append(@,
                               Req(ClusterAutoscaler, "metrics",
                                   grabber.externalClient,
                                   IF grabber.externalClient THEN Kubemark
                                   ELSE KubeSystem,
                                   <<"cluster-autoscaler">>,
                                   clusterAutoscalerPort, o # "fail", text,
                                   FALSE))]
         IN th' = [th EXCEPT ![t] =
                     Return(logged, ClusterAutoscaler, ret, ret.err # NoErr)]
    /\ UNCHANGED <<grabber, ctor, args, once, gate, numa, logs, totals>>

(***************************************************************************)
(* The kubelets: the last block of Grab().                                 *)
(***************************************************************************)
\* The kubelet port of a node's status: unset, or the usual 10250.
NodePorts == {0, 10250}

\* A node listing of up to max nodes: nodes 1..n, each with the kubelet port
\* of its status.
NodeLists(max) ==
    UNION { [1..n -> [name : 1..max, port : NodePorts]] : n \in 0..max }

ValidNodeList(ns) == \A i \in 1..Len(ns) : ns[i].name = i

InvalidPort(kubeletPort) == kubeletPort <= 0 \/ kubeletPort > MaxPort

\* grabFromKubeletInternal: what it returns for a node.
KubeletRet(node, o, text) ==
    IF InvalidPort(node.port)
    THEN [metrics |-> ZeroMetrics, err |-> <<Kubelets, "invalidport", node.name>>]
    ELSE IF o = "fail"
    THEN [metrics |-> ZeroMetrics, err |-> <<Kubelets, "fetch", node.name>>]
    ELSE IF text.valid
    THEN [metrics |-> [isNil |-> FALSE, from |-> text.id], err |-> NoErr]
    ELSE [metrics |-> ZeroMetrics, err |-> <<Kubelets, "parse", node.name>>]

\* MapPut, were the metrics of a node that failed not stored.
MapPutUnlessZero(km, name, metrics) ==
    IF metrics.isNil THEN km
    ELSE [ isNil |-> FALSE,
           m |-> [n \in (DOMAIN km.m) \cup {name} |->
                    IF n = name THEN metrics ELSE km.m[n]] ]

\* result.KubeletMetrics[name] = metrics
MapPut(km, name, metrics) ==
    [ isNil |-> FALSE,
      m |-> [n \in (DOMAIN km.m) \cup {name} |->
               IF n = name THEN metrics ELSE km.m[n]] ]

\* The map is made and the nodes are listed; the cluster has up to max nodes.
GrabKubeletsList(t, max) ==
    /\ AtStart(t, Kubelets)
    /\ th[t].op = "Grab"
    /\ LET f == [Begin(th[t], Kubelets) EXCEPT !.result[Kubelets] = EmptyMap] IN
       \/ th' = [th EXCEPT ![t] =
                   Advance([f EXCEPT
                      !.errs = Append(@, <<Kubelets, "listnodes">>),
                      !.failed = @ \cup {Kubelets},
                      !.log = Append(@, Req(Kubelets, "listnodes", FALSE, "",
                                 EmptyName, 0, FALSE, EmptyText, FALSE))])]
       \/ \E ns \in NodeLists(max) :
            /\ ValidNodeList(ns)
            /\ LET g == [f EXCEPT
                          !.log = Append(@, Req(Kubelets, "listnodes", FALSE, "",
                                     EmptyName, 0, TRUE, EmptyText, FALSE)),
                          !.nodes = ns, !.ni = 1, !.cpc = "nodes"]
               IN th' = [th EXCEPT ![t] = IF ns = << >> THEN Advance(g) ELSE g]
    /\ UNCHANGED <<grabber, ctor, args, once, gate, numa, logs, totals>>

\* LoopDone, were the loop left at the first node that fails.
LoopDoneOnError(f, ret) == f.ni = Len(f.nodes) \/ ret.err # NoErr

\* The loop over nodes.Items ends after its last item, whatever ret is.
LoopDone(f, ret) == f.ni = Len(f.nodes)

\* One iteration of the loop over nodes.Items.
GrabKubeletNode(t) ==
    /\ th[t].op = "Grab"
    /\ th[t].cur = Kubelets
    /\ th[t].cpc = "nodes"
    /\ \E o \in IF InvalidPort(th[t].nodes[th[t].ni].port)
                THEN {"fail"} ELSE Outcomes :
         LET f == th[t]
             node == f.nodes[f.ni]
             text == TextOf(t, f, Kubelets, o)
             ret == KubeletRet(node, o, text)
             logged == IF InvalidPort(node.port) THEN f
                       ELSE [f EXCEPT !.log = Append(@,
                               Req(Kubelets, "metrics", FALSE, "", <<node.name>>,
                                   node.port, o # "fail", text, FALSE))]
             g == [logged EXCEPT
                     !.errs = IF ret.err # NoErr THEN Append(@, ret.err) ELSE @,
                     !.failed = IF ret.err # NoErr THEN @ \cup {Kubelets} ELSE @,
                     !.result[Kubelets] = MapPut(@, node.name, ret.metrics),
                     !.ni = @ + 1]
         IN th' = [th EXCEPT ![t] =
                     IF LoopDone(f, ret) THEN Advance(g) ELSE g]
    /\ UNCHANGED <<grabber, ctor, args, once, gate, numa, logs, totals>>

(***************************************************************************)
(* Calls from outside.                                                     *)
(***************************************************************************)
OtherPod == <<"snapshot-controller-", "custom">>

\* The arguments of GrabFromSnapshotController: the defaults, or another pod
\* and port.
Overrides == {NoOverride, [podName |-> OtherPod, port |-> 9999]}

\* Each of the two arguments given or not.
AllOverrides == [podName : {EmptyName, OtherPod}, port : {0, 9999}]

\* A goroutine calls GrabFromScheduler, GrabFromControllerManager or
\* GrabFromSnapshotController(podName, port), the latter with arguments of A.
DirectCall(t, A) ==
    /\ ctor.state = "ready"
    /\ th[t].op = "idle"
    /\ th[t].calls < MaxGrabs
    /\ \E c \in Gated, a \in A :
         /\ c # SnapshotController => a = NoOverride
         /\ th' = [th EXCEPT ![t] =
                     [Fresh(th[t], "direct") EXCEPT
                        !.cur = c, !.cpc = "start",
                        !.podName = a.podName, !.port = a.port]]
    /\ UNCHANGED <<grabber, ctor, args, once, gate, numa, logs, totals>>

\* The caller of an in-flight Grab() gives up on it.  Grab() takes no context
\* and every request is made with context.TODO(): nothing of the call changes.
Cancel(t) ==
    /\ th[t].op = "Grab"
    /\ ~th[t].cancelled
    /\ th' = [th EXCEPT ![t].cancelled = TRUE]
    /\ UNCHANGED <<grabber, ctor, args, once, gate, numa, logs, totals>>

\* NewMetricsGrabber is called, with any arguments and any pod listing.
NewMetricsGrabber ==
    /\ ctor.state = "uninitialized"
    /\ \E listOK \in BOOLEAN, podList \in PodLists, ec \in BOOLEAN, w \in Wants :
         LET a == Args(listOK, podList, ec, w)
             r == NewMetricsGrabberResult(a)
         IN /\ ~listOK => podList = << >>
            /\ grabber' = r.grabber
            /\ ctor' = r.ctor
            /\ args' = a
    /\ UNCHANGED <<once, gate, th, numa, logs, totals>>

(***************************************************************************)
(* numaPodResources (test/e2e_node/numa_alignment.go).  A map is a         *)
(* function; Go visits the entries of a map in an order it does not fix,   *)
(* so every range loop takes the order as a sequence of the map's keys.    *)
(***************************************************************************)
\* The sequences that hold every element of S once.
Orders(S) ==
    { o \in [1..Cardinality(S) -> S] :
        \A i, j \in 1..Cardinality(S) : o[i] = o[j] => i = j }

\* The maps from some of the keys of K to the values of V.
Maps(K, V) == UNION { [S -> V] : S \in SUBSET K }

NUMANodes == -1..MaxNUMANode
Resources ==
    [ CPUToNUMANode : Maps(0..(MaxCPUs - 1), NUMANodes),
      PCIDevsToNUMANode : Maps(1..MaxDevs, NUMANodes) ]
NoResources == [CPUToNUMANode |-> << >>, PCIDevsToNUMANode |-> << >>]

\* The loop over the CPUs: returned, or the node number it leaves.
RECURSIVE VisitCPUs(_, _, _)
VisitCPUs(m, order, nodeNum) ==
    IF order = << >> THEN [returned |-> FALSE, nodeNum |-> nodeNum]
    ELSE LET cpuNode == m[Head(order)]
         IN IF nodeNum = -1 THEN VisitCPUs(m, Tail(order), cpuNode)
            ELSE IF nodeNum # cpuNode
            THEN [returned |-> TRUE, nodeNum |-> nodeNum]
            ELSE VisitCPUs(m, Tail(order), nodeNum)

\* The loop over the devices: TRUE unless it returned false.
RECURSIVE VisitDevs(_, _, _)
VisitDevs(m, order, nodeNum) ==
    IF order = << >> THEN TRUE
    ELSE LET devNode == m[Head(order)]
         IN IF devNode # -1 /\ nodeNum # devNode THEN FALSE
            ELSE VisitDevs(m, Tail(order), nodeNum)

\* R.CheckAlignment(), its two loops visiting in the orders given.
CheckAlignment(R, cpuOrder, devOrder) ==
    LET cpus == VisitCPUs(R.CPUToNUMANode, cpuOrder, -1)
    IN IF cpus.returned THEN FALSE
       ELSE VisitDevs(R.PCIDevsToNUMANode, devOrder, cpus.nodeNum)

\* Nothing returned yet.
NoReturn == [res |-> NoResources, err |-> "none", steps |-> << >>]
NoSys == [cpulist |-> << >>, numa_node |-> << >>]

IdleNUMA ==
    [ op |-> "idle", R |-> NoResources, cpuOrder |-> << >>,
      devOrder |-> << >>, aligned |-> FALSE,
      logs |-> << >>, sys |-> NoSys, ret |-> NoReturn ]

\* CheckAlignment() is called on the resources at hand.
CheckAlignmentCall ==
    /\ numa.op = "built"
    /\ \E cpuOrder \in Orders(DOMAIN numa.R.CPUToNUMANode),
          devOrder \in Orders(DOMAIN numa.R.PCIDevsToNUMANode) :
         numa' = [numa EXCEPT !.op = "checked", !.cpuOrder = cpuOrder,
                              !.devOrder = devOrder,
                              !.aligned = CheckAlignment(numa.R, cpuOrder,
                                                         devOrder)]
    /\ UNCHANGED <<grabber, ctor, args, once, gate, th, logs, totals>>

(***************************************************************************)
(* checkNUMAAlignment.  A string is a sequence of tokens: "=", ",", "-", a *)
(* digit, or a piece of a name.  The environment a pod printed is the      *)
(* sequence of its lines.  The files of /sys the container shows are the   *)
(* kernel's: one cpulist per NUMA node, no CPU on two nodes, and one       *)
(* numa_node per PCI device, holding an integer.                           *)
(***************************************************************************)
cpuListAllowedEnvVar == <<"CPULIST_ALLOWED">>
pciDevPrefix == "PCIDEVICE_"
Digit == ("0" :> 0) @@ ("1" :> 1)

\* The lines a pod prints.
EnvLines ==
    { << >>,
      <<"HOME">>,
      <<"HOME", "=", "x">>,
      <<"CPULIST_ALLOWED", "=">>,
      <<"CPULIST_ALLOWED", "=", "0", ",", "1">>,
      <<"CPULIST_ALLOWED", "=", "x">>,
      <<"PCIDEVICE_", "A", "=", "d1">>,
      <<"PCIDEVICE_", "B", "=", "d1", ",", "d2">> }
EnvTexts == UNION { [1..n -> EnvLines] : n \in 0..MaxLines }

\* The files of /sys: the cpulist of every NUMA node asked for, node 0
\* first, and the numa_node of every device.
SysFiles ==
    [ cpulist : { << <<"0", ",", "1">>, << >> >>,
                  << <<"0">>, <<"1">> >>,
                  << <<"0">> >> },
      numa_node : { f \in [ {<<"d1">>, <<"d2">>} ->
                               {<<"0">>, <<"1">>, <<"-", "1">>} ] :
                      f[<<"d2">>] # <<"-", "1">> } ]

\* Where tok is first in s; 0 if nowhere.
Index(s, tok) ==
    IF \E i \in 1..Len(s) : s[i] = tok
    THEN CHOOSE i \in 1..Len(s) :
           s[i] = tok /\ \A j \in 1..(i - 1) : s[j] # tok
    ELSE 0

\* strings.SplitN(s, sep, 2).
SplitN2(s, sep) ==
    LET i == Index(s, sep)
    IN IF i = 0 THEN <<s>>
       ELSE <<SubSeq(s, 1, i - 1), SubSeq(s, i + 1, Len(s))>>

\* strings.Split(s, sep).
RECURSIVE Split(_, _)
Split(s, sep) ==
    LET i == Index(s, sep)
    IN IF i = 0 THEN <<s>>
       ELSE <<SubSeq(s, 1, i - 1)>> \o Split(SubSeq(s, i + 1, Len(s)), sep)

\* strings.HasPrefix(name, prefix), the prefix being one token.
HasPrefix(name, prefix) == Len(name) >= 1 /\ name[1] = prefix

\* strconv.Atoi(s).
Atoi(s) ==
    IF Len(s) = 1 /\ s[1] \in DOMAIN Digit
    THEN [n |-> Digit[s[1]], err |-> "nil"]
    ELSE IF Len(s) = 2 /\ s[1] = "-" /\ s[2] \in DOMAIN Digit
    THEN [n |-> 0 - Digit[s[2]], err |-> "nil"]
    ELSE [n |-> 0, err |-> "atoi"]

\* cpuset.Parse(s): the CPUs of a list of single CPUs.
cpusetParse(s) ==
    LET parts == Split(s, ",")
    IN IF s = << >> THEN [cpus |-> {}, err |-> "nil"]
       ELSE IF \A i \in 1..Len(parts) :
                 Len(parts[i]) = 1 /\ parts[i][1] \in DOMAIN Digit
       THEN [cpus |-> { Digit[parts[i][1]] : i \in 1..Len(parts) },
             err |-> "nil"]
       ELSE [cpus |-> {}, err |-> "cpuset"]

\* m[k] = v.
Put(m, k, v) ==
    [ x \in DOMAIN m \cup {k} |-> IF x = k THEN v ELSE m[x] ]

\* The loop of makeEnvMap over the lines left.
RECURSIVE makeEnvMapFrom(_, _)
makeEnvMapFrom(podEnv, envMap) ==
    IF podEnv = << >> THEN [m |-> envMap, err |-> "nil"]
    ELSE LET envVar == Head(podEnv)
             pair == SplitN2(envVar, "=")
         IN IF Len(envVar) = 0 THEN makeEnvMapFrom(Tail(podEnv), envMap)
            ELSE IF Len(pair) # 2 THEN [m |-> << >>, err |-> "split"]
            ELSE makeEnvMapFrom(Tail(podEnv), Put(envMap, pair[1], pair[2]))

makeEnvMap(text) == makeEnvMapFrom(text, << >>)

\* f.ExecCommandInContainer(..., "/bin/cat", path): what the file holds.
Cat(files, path) == IF path \in DOMAIN files THEN files[path] ELSE << >>

getCPUToNUMANodeMapFromEnv(environ, sys) ==
    LET allowed == IF cpuListAllowedEnvVar \in DOMAIN environ
                   THEN cpusetParse(environ[cpuListAllowedEnvVar])
                   ELSE [cpus |-> {}, err |-> "nil"]
        numaNodes == Len(sys.cpulist)
        cpusPerNUMA == [ n \in 1..numaNodes |->
                           cpusetParse(Cat(sys.cpulist, n)) ]
        onMap == UNION { cpusPerNUMA[n].cpus : n \in 1..numaNodes }
        CPUToNUMANode ==
            [ cpu \in onMap |->
                (CHOOSE n \in 1..numaNodes : cpu \in cpusPerNUMA[n].cpus) - 1 ]
    IN IF allowed.err # "nil" THEN [m |-> << >>, err |-> allowed.err]
       ELSE IF allowed.cpus = {} THEN [m |-> << >>, err |-> "nocpus"]
       ELSE IF \E n \in 1..numaNodes : cpusPerNUMA[n].err # "nil"
       THEN [m |-> << >>, err |-> "cpulist"]
       ELSE IF \E cpuID \in allowed.cpus : cpuID \notin DOMAIN CPUToNUMANode
       THEN [m |-> << >>, err |-> "notfound"]
       ELSE [m |-> [cpuID \in allowed.cpus |-> CPUToNUMANode[cpuID]],
             err |-> "nil"]

\* The loop over the devices of one variable.
RECURSIVE VisitPCIDevs(_, _, _)
VisitPCIDevs(pciDevs, sys, NUMAPerDev) ==
    IF pciDevs = << >> THEN [m |-> NUMAPerDev, err |-> "nil"]
    ELSE LET pciDev == Head(pciDevs)
             nodeNum == Atoi(Cat(sys.numa_node, pciDev))
         IN IF nodeNum.err # "nil" THEN [m |-> << >>, err |-> nodeNum.err]
            ELSE VisitPCIDevs(Tail(pciDevs), sys,
                              Put(NUMAPerDev, pciDev, nodeNum.n))

\* The loop over the variables, visited in the order given.
RECURSIVE VisitEnviron(_, _, _, _)
VisitEnviron(environ, sys, order, NUMAPerDev) ==
    IF order = << >> THEN [m |-> NUMAPerDev, err |-> "nil"]
    ELSE LET name == Head(order)
             devs == VisitPCIDevs(Split(environ[name], ","), sys, NUMAPerDev)
         IN IF ~HasPrefix(name, pciDevPrefix)
            THEN VisitEnviron(environ, sys, Tail(order), NUMAPerDev)
            ELSE IF devs.err # "nil" THEN devs
            ELSE VisitEnviron(environ, sys, Tail(order), devs.m)

\* getPCIDeviceToNumaNodeMapFromEnv, were no device at all no error.
getPCIDeviceToNumaNodeMapFromEnvOrNone(environ, sys, order) ==
    VisitEnviron(environ, sys, order, << >>)

getPCIDeviceToNumaNodeMapFromEnv(environ, sys, order) ==
    LET devs == VisitEnviron(environ, sys, order, << >>)
    IN IF devs.err # "nil" THEN devs
       ELSE IF DOMAIN devs.m = {} THEN [m |-> << >>, err |-> "nodevs"]
       ELSE devs

\* checkNUMAAlignment(f, pod, text, numaNodes) in a container showing sys,
\* its loops over maps visiting in the orders given: the resources and the
\* error it returns, and the steps it made.
checkNUMAAlignment(text, sys, varOrder, cpuOrder, devOrder) ==
    LET podEnv == makeEnvMap(text)
        CPUToNUMANode == getCPUToNUMANodeMapFromEnv(podEnv.m, sys)
        PCIDevsToNUMANode ==
            getPCIDeviceToNumaNodeMapFromEnv(podEnv.m, sys, varOrder)
        numaRes == [ CPUToNUMANode |-> CPUToNUMANode.m,
                     PCIDevsToNUMANode |-> PCIDevsToNUMANode.m ]
        aligned == CheckAlignment(numaRes, cpuOrder, devOrder)
    IN IF podEnv.err # "nil"
       THEN [res |-> NoResources, err |-> podEnv.err,
             steps |-> <<"makeEnvMap">>]
       ELSE IF CPUToNUMANode.err # "nil"
       THEN [res |-> NoResources, err |-> CPUToNUMANode.err,
             steps |-> <<"makeEnvMap", "getCPUToNUMANodeMapFromEnv">>]
       ELSE IF PCIDevsToNUMANode.err # "nil"
       THEN [res |-> NoResources, err |-> PCIDevsToNUMANode.err,
             steps |-> <<"makeEnvMap", "getCPUToNUMANodeMapFromEnv",
                         "getPCIDeviceToNumaNodeMapFromEnv">>]
       ELSE [res |-> numaRes,
             err |-> IF aligned THEN "nil" ELSE "notaligned",
             steps |-> <<"makeEnvMap", "getCPUToNUMANodeMapFromEnv",
                         "getPCIDeviceToNumaNodeMapFromEnv",
                         "CheckAlignment">>]

\* checkNUMAAlignment is called on the text and the container at hand.
checkNUMAAlignmentCall ==
    /\ numa.op = "printed"
    /\ LET podEnv == makeEnvMap(numa.logs)
           cpus == getCPUToNUMANodeMapFromEnv(podEnv.m, numa.sys)
       IN \E varOrder \in Orders(DOMAIN podEnv.m) :
            LET devs == getPCIDeviceToNumaNodeMapFromEnv(podEnv.m, numa.sys,
                                                         varOrder)
            IN \E cpuOrder \in Orders(DOMAIN cpus.m),
                  devOrder \in Orders(DOMAIN devs.m) :
                 numa' = [numa EXCEPT
                            !.op = "returned",
                            !.cpuOrder = cpuOrder, !.devOrder = devOrder,
                            !.ret = checkNUMAAlignment(numa.logs, numa.sys,
                                        varOrder, cpuOrder, devOrder)]
    /\ UNCHANGED <<grabber, ctor, args, once, gate, th, logs, totals>>

(***************************************************************************)
(* Options of package logs (component-base/logs/options.go) and the        *)
(* process-wide log-format registry it reads and freezes.                  *)
(***************************************************************************)
defaultLogFormat == "text"
LogFormats == {"text", "json", "zap"}

\* The registry: the formats registered, and whether it is frozen.
NewLogFormatRegistry == [registry |-> {}, frozen |-> FALSE]

\* Register(name, logger): refused once frozen, and for a name taken.
RegistryRegister(r, name) ==
    IF r.frozen THEN [r |-> r, err |-> "frozen"]
    ELSE IF name \in r.registry THEN [r |-> r, err |-> "exists"]
    ELSE [r |-> [r EXCEPT !.registry = @ \cup {name}], err |-> "nil"]

\* Get(name): the logger registered under the name, or an error.
RegistryGet(r, name) ==
    IF name \in r.registry THEN "nil" ELSE "notexists"

\* List(): the names registered.
RegistryList(r) == r.registry

\* Freeze().
RegistryFreeze(r) == [r EXCEPT !.frozen = TRUE]

NewOptions == [LogFormat |-> defaultLogFormat]

\* o.Get(): its error.
Get(o, r) == RegistryGet(r, o.LogFormat)

\* o.Validate(): no error, or one.
Validate(o, r) ==
    IF Get(o, r) # "nil" THEN "unsupported" ELSE "nil"

\* The formats a help text names, the text being the list of them.
Permitted(help) == { help[i] : i \in 1..Len(help) }

\* AddFlags, were the registry left open.
AddFlagsWithoutFreeze(o, r, formats) ==
    [ o |-> [o EXCEPT !.LogFormat = defaultLogFormat],
      help |-> formats,
      r |-> r ]

\* o.AddFlags(fs), List() having answered formats: the flag is bound to
\* o.LogFormat with its default, the help text names the formats, and the
\* registry is frozen.
AddFlags(o, r, formats) ==
    [ o |-> [o EXCEPT !.LogFormat = defaultLogFormat],
      help |-> formats,
      r |-> RegistryFreeze(r) ]

NoCall == [call |-> "none", format |-> "", err |-> "nil", added |-> FALSE]
IdleLogs ==
    [ op |-> "idle", logRegistry |-> NewLogFormatRegistry, o |-> NewOptions,
      help |-> << >>, added |-> FALSE, last |-> NoCall ]

Called(call, format, err) ==
    [call |-> call, format |-> format, err |-> err, added |-> logs.added]

\* A package registers a log format.
RegisterCall ==
    /\ logs.op = "run"
    /\ \E name \in LogFormats :
         LET reg == RegistryRegister(logs.logRegistry, name)
         IN logs' = [logs EXCEPT !.logRegistry = reg.r,
                                 !.last = Called("Register", name, reg.err)]
    /\ UNCHANGED <<grabber, ctor, args, once, gate, th, numa, totals>>

\* The command adds the flags of its options, once.
AddFlagsCall ==
    /\ logs.op = "run"
    /\ ~logs.added
    /\ \E formats \in Orders(RegistryList(logs.logRegistry)) :
         LET a == AddFlags(logs.o, logs.logRegistry, formats)
         IN logs' = [logs EXCEPT !.o = a.o, !.help = a.help,
                                 !.logRegistry = a.r, !.added = TRUE,
                                 !.last = Called("AddFlags", "", "nil")]
    /\ UNCHANGED <<grabber, ctor, args, once, gate, th, numa, totals>>

\* The command line sets --logging-format.
ParseFlag ==
    /\ logs.op = "run"
    /\ logs.added
    /\ \E value \in LogFormats :
         logs' = [logs EXCEPT !.o.LogFormat = value,
                              !.last = Called("Parse", value, "nil")]
    /\ UNCHANGED <<grabber, ctor, args, once, gate, th, numa, totals>>

ValidateCall ==
    /\ logs.op = "run"
    /\ logs' = [logs EXCEPT !.last =
                  Called("Validate", logs.o.LogFormat,
                         Validate(logs.o, logs.logRegistry))]
    /\ UNCHANGED <<grabber, ctor, args, once, gate, th, numa, totals>>

GetCall ==
    /\ logs.op = "run"
    /\ logs' = [logs EXCEPT !.last =
                  Called("Get", logs.o.LogFormat,
                         Get(logs.o, logs.logRegistry))]
    /\ UNCHANGED <<grabber, ctor, args, once, gate, th, numa, totals>>
(***************************************************************************)
(* TestTotals of package value: four prefix transformers, each made to     *)
(* transform once to storage and once from storage, and the two counter    *)
(* vectors read after each pair.  A counter vector is a function from the  *)
(* label values of its series to their counts.                             *)
(***************************************************************************)
kmsPrefix == "k8s:enc:kms:v1:"
okErr == [kind |-> "nil", code |-> ""]
nonStatusErr == [kind |-> "plain", code |-> ""]
failedPreconditionErr == [kind |-> "status", code |-> "FailedPrecondition"]
internalErr == [kind |-> "status", code |-> "Internal"]

\* An operations series and a failures series, as the test writes them.
Operation(status, type, value) ==
    [ labels |-> [ status |-> status, transformation_type |-> type,
                   transformer_prefix |-> kmsPrefix ],
      value |-> value ]
Failure(type, value) ==
    [labels |-> [transformation_type |-> type], value |-> value]

\* What a test case wants of a transformer that fails with the status.
WantFailed(status) ==
    [ failures |-> {Failure("from_storage", 1), Failure("to_storage", 1)},
      operations |-> { Operation(status, "from_storage", 1),
                       Operation(status, "to_storage", 1) } ]

testCases ==
    << [ desc |-> "non-status error",
         prefix |-> [Prefix |-> kmsPrefix, err |-> nonStatusErr],
         want |-> WantFailed("Unknown") ],
       [ desc |-> "ok",
         prefix |-> [Prefix |-> kmsPrefix, err |-> okErr],
         want |-> [ failures |-> {},
                    operations |-> { Operation("OK", "from_storage", 1),
                                     Operation("OK", "to_storage", 1) } ] ],
       [ desc |-> "failed precondition",
         prefix |-> [Prefix |-> kmsPrefix, err |-> failedPreconditionErr],
         want |-> WantFailed("FailedPrecondition") ],
       [ desc |-> "internal",
         prefix |-> [Prefix |-> kmsPrefix, err |-> internalErr],
         want |-> WantFailed("Internal") ] >>

\* status.Code(err).String().
StatusOf(err) ==
    IF err.kind = "nil" THEN "OK"
    ELSE IF err.kind = "status" THEN err.code
    ELSE "Unknown"

\* vec.WithLabelValues(labels).Inc().
Inc(vec, labels) ==
    IF labels \in DOMAIN vec THEN [vec EXCEPT ![labels] = @ + 1]
    ELSE Put(vec, labels, 1)

\* RecordTransformation(type, prefix, start, err) on the two vectors.
RecordTransformation(t, type, prefix, err) ==
    [t EXCEPT
       !.operations =
          Inc(@, [ status |-> StatusOf(err), transformation_type |-> type,
                   transformer_prefix |-> prefix ]),
       !.failures =
          IF err.kind # "nil" THEN Inc(@, [transformation_type |-> type])
          ELSE @]

\* vec.Reset().
Reset(vec) == << >>

\* The series a gatherer finds in a vector.
Gather(vec) == { [labels |-> l, value |-> vec[l]] : l \in DOMAIN vec }

\* testutil.GatherAndCompare for the two metrics of the test.
GatherAndCompare(t, want) ==
    /\ Gather(t.operations) = want.operations
    /\ Gather(t.failures) = want.failures

\* The series the operations vector may hold from earlier tests.
PriorOperations ==
    Maps({ Operation(StatusOf(e), type, 0).labels :
             e \in {okErr, nonStatusErr, failedPreconditionErr, internalErr},
             type \in {"from_storage", "to_storage"} },
         1..MaxPrior)

IdleTotals ==
    [ op |-> "idle", pc |-> "none", tt |-> 0, operations |-> << >>,
      failures |-> << >>, registered |-> FALSE, passed |-> << >> ]

\* RegisterMetrics(); transformerOperationsTotal.Reset().
RegisterMetrics ==
    /\ totals.pc = "start"
    /\ totals' = [totals EXCEPT !.registered = TRUE,
                                !.operations = Reset(@),
                                !.tt = 1, !.pc = "to"]
    /\ UNCHANGED <<grabber, ctor, args, once, gate, th, numa, logs>>

\* tt.prefix.TransformToStorage([]byte("value"), nil).
TransformToStorage ==
    /\ totals.pc = "to"
    /\ LET prefix == testCases[totals.tt].prefix
       IN totals' = [RecordTransformation(totals, "to_storage",
                                          prefix.Prefix, prefix.err)
                       EXCEPT !.pc = "from"]
    /\ UNCHANGED <<grabber, ctor, args, once, gate, th, numa, logs>>

\* tt.prefix.TransformFromStorage([]byte("k8s:enc:kms:v1:value"), nil).
TransformFromStorage ==
    /\ totals.pc = "from"
    /\ LET prefix == testCases[totals.tt].prefix
       IN totals' = [RecordTransformation(totals, "from_storage",
                                          prefix.Prefix, prefix.err)
                       EXCEPT !.pc = "compare"]
    /\ UNCHANGED <<grabber, ctor, args, once, gate, th, numa, logs>>

\* The comparison of the case: it passes, or t.Fatal ends the case.
Compare ==
    /\ totals.pc = "compare"
    /\ totals' = [totals EXCEPT
                    !.passed = Append(@, GatherAndCompare(totals,
                                           testCases[totals.tt].want)),
                    !.pc = "deferred"]
    /\ UNCHANGED <<grabber, ctor, args, once, gate, th, numa, logs>>

\* Deferred, were the failures vector not reset.
DeferredKeepingFailures(t) == [t EXCEPT !.operations = Reset(@)]

\* The two deferred calls of a case.
Deferred(t) ==
    [t EXCEPT !.failures = Reset(@), !.operations = Reset(@)]

\* The case returns, and the next one starts.
CaseReturns ==
    /\ totals.pc = "deferred"
    /\ totals' = [Deferred(totals) EXCEPT
                    !.tt = IF totals.tt < Len(testCases) THEN @ + 1 ELSE @,
                    !.pc = IF totals.tt < Len(testCases) THEN "to"
                           ELSE "done"]
    /\ UNCHANGED <<grabber, ctor, args, once, gate, th, numa, logs>>

(***************************************************************************)
(* Specifications.                                                         *)
(***************************************************************************)
NoGate == [runs |-> 0, outcome |-> "none", err |-> NoErr, pod |-> EmptyName]

\* Guards unused, and the goroutines of T idle.
InitRest(T) ==
    /\ once = [c \in Gated |-> "unused"]
    /\ gate = [c \in Gated |-> NoGate]
    /\ th = [t \in T |-> IdleFrame]
    /\ numa = IdleNUMA
    /\ logs = IdleLogs
    /\ totals = IdleTotals

\* Before construction.
InitNew ==
    /\ grabber = NilGrabber
    /\ ctor = [state |-> "uninitialized", err |-> << >>, lists |-> 0, others |-> 0]
    /\ args = NoArgs
    /\ InitRest({1})

\* The three pods the Grabber looks for, as the listing names them.
ThreePods ==
    << <<"kube-scheduler-", "m1">>, <<"kube-controller-manager-", "m1">>,
       <<"volume-snapshot-controller", "-0">> >>

\* The listings of some of the three pods.
SomePods ==
    { SelectSeq(ThreePods, LAMBDA p : p \in S) :
        S \in SUBSET { ThreePods[i] : i \in 1..3 } }

\* After a successful construction, with any flags and any of the three pods.
Init ==
    /\ \E podList \in SomePods, ec \in BOOLEAN, w \in Wants :
         LET a == Args(TRUE, podList, ec, w)
             r == NewMetricsGrabberResult(a)
         IN /\ grabber = r.grabber
            /\ ctor = r.ctor
            /\ args = NoArgs
    /\ InitRest({1})

\* The caller asks for the three gated components only.
WantGated ==
    [ kubelets |-> FALSE, scheduler |-> TRUE, controllers |-> TRUE,
      apiServer |-> FALSE, clusterAutoscaler |-> FALSE,
      snapshotController |-> TRUE ]

\* After a successful construction that was asked for the gated components,
\* with all three pods listed or with the snapshot-controller's missing.
InitRace ==
    /\ \E podList \in {ThreePods, SubSeq(ThreePods, 1, 2)} :
         LET a == Args(TRUE, podList, FALSE, WantGated)
             r == NewMetricsGrabberResult(a)
         IN /\ grabber = r.grabber
            /\ ctor = r.ctor
            /\ args = NoArgs
    /\ InitRest(Threads)

\* One goroutine calls Grab() again and again.
Next ==
    \/ GrabCall(1)
    \/ GrabSkip(1)
    \/ GrabFromAPIServer(1)
    \/ \E c \in Gated : Enter(1, c)
    \/ \E c \in Gated : WaitForPodsReady(1, c)
    \/ \E c \in Gated : PollImmediate(1, c)
    \/ \E c \in Gated : AfterOnce(1, c)
    \/ GrabFromClusterAutoscaler(1)
    \/ GrabKubeletsList(1, MaxNodes)
    \/ GrabKubeletNode(1)
    \/ GrabReturn(1)

\* Goroutines call the gated GrabFromX concurrently.
NextRace ==
    \E t \in Threads :
      \/ DirectCall(t, Overrides)
      \/ \E c \in Gated : Enter(t, c)
      \/ \E c \in Gated : WaitForPodsReady(t, c)
      \/ \E c \in Gated : PollImmediate(t, c)
      \/ \E c \in Gated : OnceBlocked(t, c)
      \/ \E c \in Gated : AfterOnce(t, c)

NextNew == NewMetricsGrabber

\* The caller asks for no component.
WantNone ==
    [ kubelets |-> FALSE, scheduler |-> FALSE, controllers |-> FALSE,
      apiServer |-> FALSE, clusterAutoscaler |-> FALSE,
      snapshotController |-> FALSE ]

\* The caller asks for one or two components.
WantFew ==
    { [WantNone EXCEPT !.apiServer = TRUE, !.scheduler = TRUE],
      [WantNone EXCEPT !.controllers = TRUE, !.clusterAutoscaler = TRUE],
      [WantNone EXCEPT !.snapshotController = TRUE],
      [WantNone EXCEPT !.kubelets = TRUE] }

\* After a successful construction with the three pods listed, asked for
\* one or two of the components.
InitLive ==
    /\ \E w \in WantFew :
         LET a == Args(TRUE, ThreePods, FALSE, w)
             r == NewMetricsGrabberResult(a)
         IN /\ grabber = r.grabber
            /\ ctor = r.ctor
            /\ args = NoArgs
    /\ InitRest(Threads)

\* After a successful construction asked for the kubelets, for the kubelets
\* and the API server, or for the API server.
InitKubelets ==
    /\ \E w \in { [WantNone EXCEPT !.kubelets = TRUE],
                   [WantNone EXCEPT !.kubelets = TRUE, !.apiServer = TRUE],
                   [WantNone EXCEPT !.apiServer = TRUE] } :
         LET a == Args(TRUE, ThreePods, FALSE, w)
             r == NewMetricsGrabberResult(a)
         IN /\ grabber = r.grabber
            /\ ctor = r.ctor
            /\ args = NoArgs
    /\ InitRest({1})

\* One goroutine calls Grab() in a cluster of up to MaxFanOut nodes.
NextKubelets ==
    \/ GrabCall(1)
    \/ GrabSkip(1)
    \/ GrabFromAPIServer(1)
    \/ GrabKubeletsList(1, MaxFanOut)
    \/ GrabKubeletNode(1)
    \/ GrabReturn(1)

\* As InitRace, with one goroutine.
InitArgs ==
    /\ \E podList \in {ThreePods, SubSeq(ThreePods, 1, 2)} :
         LET a == Args(TRUE, podList, FALSE, WantGated)
             r == NewMetricsGrabberResult(a)
         IN /\ grabber = r.grabber
            /\ ctor = r.ctor
            /\ args = NoArgs
    /\ InitRest({1})

\* One goroutine calls the gated GrabFromX, the snapshot-controller's with
\* any arguments.
NextArgs ==
    \/ DirectCall(1, AllOverrides)
    \/ \E c \in Gated : Enter(1, c)
    \/ \E c \in Gated : WaitForPodsReady(1, c)
    \/ \E c \in Gated : PollImmediate(1, c)
    \/ \E c \in Gated : AfterOnce(1, c)

\* After a successful construction with the three pods listed, asked for the
\* gated components.
InitCancel ==
    /\ LET a == Args(TRUE, ThreePods, FALSE, WantGated)
           r == NewMetricsGrabberResult(a)
       IN /\ grabber = r.grabber
          /\ ctor = r.ctor
          /\ args = NoArgs
    /\ InitRest({1})

\* One goroutine calls Grab(), and its caller may give up on a call.
NextCancel ==
    \/ GrabCall(1)
    \/ Cancel(1)
    \/ GrabSkip(1)
    \/ \E c \in Gated : Enter(1, c)
    \/ \E c \in Gated : WaitForPodsReady(1, c)
    \/ \E c \in Gated : PollImmediate(1, c)
    \/ \E c \in Gated : AfterOnce(1, c)
    \/ GrabReturn(1)

\* The steps of a Grab() that goroutine t is in.
GrabStep(t) ==
    \/ GrabSkip(t)
    \/ GrabFromAPIServer(t)
    \/ \E c \in Gated : Enter(t, c)
    \/ \E c \in Gated : WaitForPodsReady(t, c)
    \/ \E c \in Gated : PollImmediate(t, c)
    \/ \E c \in Gated : OnceBlocked(t, c)
    \/ \E c \in Gated : AfterOnce(t, c)
    \/ GrabFromClusterAutoscaler(t)
    \/ GrabKubeletsList(t, MaxNodes)
    \/ GrabKubeletNode(t)
    \/ GrabReturn(t)

\* Goroutines call Grab() concurrently.
NextLive == \E t \in Threads : GrabCall(t) \/ GrabStep(t)

Spec == Init /\ [][Next]_vars
SpecRace == InitRace /\ [][NextRace]_vars
SpecNew == InitNew /\ [][NextNew]_vars

\* No Grabber is built and no goroutine calls one.
NoGrabber ==
    /\ grabber = NilGrabber
    /\ ctor = [state |-> "uninitialized", err |-> << >>, lists |-> 0, others |-> 0]
    /\ args = NoArgs
    /\ once = [c \in Gated |-> "unused"]
    /\ gate = [c \in Gated |-> NoGate]
    /\ th = [t \in {1} |-> IdleFrame]

\* Any resources, not yet checked.
InitAlign ==
    /\ NoGrabber
    /\ \E R \in Resources : numa = [IdleNUMA EXCEPT !.op = "built", !.R = R]
    /\ logs = IdleLogs
    /\ totals = IdleTotals

NextAlign == CheckAlignmentCall

\* Any text a pod printed, in any container.
InitNUMA ==
    /\ NoGrabber
    /\ \E text \in EnvTexts, sys \in SysFiles :
         numa = [IdleNUMA EXCEPT !.op = "printed", !.logs = text, !.sys = sys]
    /\ logs = IdleLogs
    /\ totals = IdleTotals

NextNUMA == checkNUMAAlignmentCall

\* A new registry and new options.
InitLogs ==
    /\ NoGrabber
    /\ numa = IdleNUMA
    /\ logs = [IdleLogs EXCEPT !.op = "run"]
    /\ totals = IdleTotals

NextLogs ==
    \/ RegisterCall
    \/ AddFlagsCall
    \/ ParseFlag
    \/ ValidateCall
    \/ GetCall

SpecLogs == InitLogs /\ [][NextLogs]_vars

\* TestTotals starts, after tests that may have counted operations.
InitTotals ==
    /\ NoGrabber
    /\ numa = IdleNUMA
    /\ logs = IdleLogs
    /\ \E prior \in PriorOperations :
         totals = [IdleTotals EXCEPT !.op = "test", !.pc = "start",
                                     !.operations = prior]

NextTotals ==
    \/ RegisterMetrics
    \/ TransformToStorage
    \/ TransformFromStorage
    \/ Compare
    \/ CaseReturns

SpecTotals == InitTotals /\ [][NextTotals]_vars
SpecNUMA == InitNUMA /\ [][NextNUMA]_vars
SpecAlign == InitAlign /\ [][NextAlign]_vars

SpecKubelets == InitKubelets /\ [][NextKubelets]_vars
SpecArgs == InitArgs /\ [][NextArgs]_vars
SpecCancel == InitCancel /\ [][NextCancel]_vars

\* Every goroutine inside a Grab() is scheduled again and again, and every
\* request it makes returns.
SpecLive ==
    InitLive /\ [][NextLive]_vars /\ \A t \in Threads : WF_vars(GrabStep(t))


(***************************************************************************)
(* Properties.                                                             *)
(***************************************************************************)
Callers == DOMAIN th

\* The components that have an entry in a list of errors.
ErrComps(errs) == { errs[i][1] : i \in 1..Len(errs) }

\* The components a log holds a request or wait of.
LogComps(log) == { log[i].comp : i \in 1..Len(log) }

\* A pod of the listing matches a pattern.
Listed(lit) == \E i \in 1..Len(args.podList) : MatchString(lit, args.podList[i])

\* Metrics parsed from a body that goroutine t fetched from c in the call
\* its frame f is of.
FetchedInCall(t, f, c, metrics) ==
    /\ ~metrics.isNil
    /\ metrics.from # << >>
    /\ metrics.from[1] = t
    /\ metrics.from[2] = f.calls
    /\ metrics.from[3] = c

\* C1: partial-failure isolation in Grab(): whatever the other components'
\* outcomes, every enabled component before the current block has been
\* entered, a returned Grab() has entered every enabled component, and every
\* enabled component of which no wait, request or parse failed in the call
\* has its Collection field populated.
C1_PartialFailureIsolation ==
    \A t \in Callers :
      /\ th[t].op = "Grab" =>
           \A i \in 1..(th[t].gpc - 1) :
             FlagOf(grabber, GrabOrder[i]) => GrabOrder[i] \in th[t].tried
      /\ th[t].returned =>
           \A c \in Components :
             FlagOf(grabber, c) =>
               /\ c \in th[t].tried
               /\ c \notin th[t].failed => ~th[t].result[c].isNil

\* A Grab() has returned in which the scheduler failed and the cluster
\* autoscaler, a later block, was collected all the same.
C1_Witness ==
    \E t \in Callers :
      /\ th[t].returned
      /\ Scheduler \in th[t].failed
      /\ ClusterAutoscaler \in th[t].tried \ th[t].failed
      /\ ~th[t].result[ClusterAutoscaler].isNil

\* C2: Grab() returns a nil error exactly when no wait, request or parse of an
\* enabled component failed in the call.
C2_NilErrorIffAllSucceeded ==
    \A t \in Callers :
      th[t].returned => (th[t].rerr = NoErr <=> th[t].failed = {})

\* C3: once the readiness gate of a component has failed, every GrabFromX for
\* that component that returns, the later ones too, returns that failure.
C3_GateFailurePropagates ==
    \A t \in Callers : \A c \in Gated :
      (th[t].last = c /\ gate[c].outcome = "fail") =>
        th[t].ret.err = gate[c].err

\* C4: a caller that found the gate running observes the outcome of the one
\* check: its failure if it failed, and if it succeeded, success with metrics
\* parsed from a body the component answered.
C4_RacersObserveGateOutcome ==
    \A t \in Callers : \A c \in Gated :
      (th[t].last = c /\ c \in th[t].waited) =>
        /\ gate[c].outcome = "fail" => th[t].ret.err = gate[c].err
        /\ gate[c].outcome = "ok" =>
             /\ th[t].ret.err = NoErr
             /\ th[t].ret.metrics.from # << >>

\* The goroutines inside the body of the guard of c.
InBody(c) == { t \in Callers : th[t].cur = c /\ th[t].cpc \in {"ready", "poll"} }

\* C5: the body of each guard runs at most once per Grabber: at most one
\* caller is ever inside it, none once the guard is done, and only the call
\* that ran the body makes requests inside the gate.
C5_GateBodyAtMostOnce ==
    \A c \in Gated :
      /\ gate[c].runs <= 1
      /\ Cardinality(InBody(c)) <= 1
      /\ InBody(c) # {} => once[c] = "running"
      /\ \A t \in Callers :
           (\E i \in 1..Len(th[t].log) :
              th[t].log[i].comp = c /\ th[t].log[i].inGate) => c \in th[t].ran

\* Two callers raced on the scheduler's guard: one ran the body, the other
\* waited for it, and both have returned.
C5_Witness ==
    \E t, u \in Callers :
      /\ t # u
      /\ th[t].last = Scheduler /\ Scheduler \in th[t].ran
      /\ th[u].last = Scheduler /\ Scheduler \in th[u].waited
      /\ th[t].op = "idle" /\ th[u].op = "idle"
      /\ gate[Scheduler].runs = 1

\* C6: in a returned Grab(), the field of every enabled component that was
\* entered without any failure holds the parse of a body fetched from that
\* component during this call.
C6_CollectionFromThisCallsFetches ==
    \A t \in Callers :
      th[t].returned =>
        \A c \in Single :
          (FlagOf(grabber, c) /\ c \notin th[t].failed
             /\ c \notin ErrComps(th[t].errs)) =>
            FetchedInCall(t, th[t], c, th[t].result[c])

\* C7: a component whose flag is off is never entered by Grab(): no wait, no
\* request, no guard consumed, its field at the zero value and no error of it.
C7_DisabledNeverAttempted ==
    \A t \in Callers : \A c \in Components :
      ~FlagOf(grabber, c) =>
        /\ c \notin th[t].tried
        /\ c \notin th[t].failed
        /\ c \notin LogComps(th[t].log)
        /\ c \notin ErrComps(th[t].errs)
        /\ c \notin ErrComps(th[t].rerr)
        /\ th[t].result[c] = ZeroCollection[c]
        /\ th[t].cur = c => th[t].cpc = "start"
        /\ c \in Gated => once[c] = "unused" /\ gate[c].runs = 0

\* A Grab() has returned that collected the API server and left out the
\* disabled scheduler, whose pod is there, and the disabled kubelets.
C7_Witness ==
    \E t \in Callers :
      /\ th[t].returned
      /\ ~grabber.grabFromScheduler /\ grabber.kubeScheduler # EmptyName
      /\ ~grabber.grabFromKubelets
      /\ ~th[t].result[APIServer].isNil
      /\ th[t].result[Scheduler] = ZeroMetrics
      /\ th[t].result[Kubelets] = NilMap

\* C8: after a listing that succeeded NewMetricsGrabber has succeeded, and
\* each gated flag is stored as (requested and a matching pod is listed).
C8_FlagsForcedOffWithoutPod ==
    (args.called /\ args.listOK) =>
      /\ ctor.state = "ready"
      /\ ctor.err = NoErr
      /\ ~grabber.isNil
      /\ grabber.grabFromScheduler <=>
           (args.scheduler /\ Listed(regKubeScheduler))
      /\ grabber.grabFromControllerManager <=>
           (args.controllers /\ Listed(regKubeControllerManager))
      /\ grabber.grabFromSnapshotController <=>
           (args.snapshotController /\ Listed(regSnapshotController))

\* The scheduler was asked for, no scheduler pod is listed, and construction
\* has succeeded with the scheduler's flag off.
C8_Witness ==
    /\ args.called /\ args.listOK
    /\ args.scheduler /\ ~Listed(regKubeScheduler)
    /\ args.podList # << >>
    /\ ctor.state = "ready"
    /\ ~grabber.grabFromScheduler

\* C9: after a listing that failed NewMetricsGrabber has returned the
\* listing's error and no Grabber, having listed once and asked nothing else.
C9_ListFailureIsFatal ==
    (args.called /\ ~args.listOK) =>
      /\ ctor.state = "failed"
      /\ ctor.err = <<"listpods">>
      /\ grabber = NilGrabber
      /\ ctor.lists = 1
      /\ ctor.others = 0

\* NewMetricsGrabber was asked for every component and its listing failed.
C9_Witness ==
    /\ args.called /\ ~args.listOK
    /\ args.scheduler /\ args.controllers /\ args.snapshotController
    /\ args.apiServer /\ args.kubelets /\ args.clusterAutoscaler
    /\ ctor.state = "failed"

\* C10: HasControlPlanePods() is true exactly when the scheduler's, the
\* controller-manager's and the snapshot-controller's pods were all located.
C10_HasControlPlanePodsAllThree ==
    ctor.state = "ready" =>
      (HasControlPlanePods(grabber) <=>
         /\ grabber.kubeScheduler # EmptyName
         /\ grabber.kubeControllerManager # EmptyName
         /\ grabber.snapshotController # EmptyName)

\* The metrics requests frame f made inside the guard of c.
Probes(f, c) ==
    { i \in 1..Len(f.log) :
        f.log[i].comp = c /\ f.log[i].kind = "metrics" /\ f.log[i].inGate }

\* An error is in a list of errors.
HasErr(errs, e) == \E i \in 1..Len(errs) : errs[i] = e

\* C11: when every metrics request of a gate's poll fails, the poll gives up
\* at its bound, the GrabFromX that ran the gate returns a timeout error and
\* no metrics, the Grab() it belongs to reports that error and leaves the
\* field at zero, and every other enabled component of that Grab() is entered
\* and, unless a step of its own failed, collected.
C11_GateTimeoutReported ==
    \A t \in Callers : \A c \in Gated :
      /\ th[t].polls <= MaxPolls
      /\ Cardinality(Probes(th[t], c)) <= MaxPolls
      /\ (th[t].last = c /\ Probes(th[t], c) # {}
            /\ \A i \in Probes(th[t], c) : ~th[t].log[i].ok) =>
           /\ Cardinality(Probes(th[t], c)) = MaxPolls
           /\ th[t].ret = [metrics |-> ZeroMetrics, err |-> <<c, "timeout">>]
           /\ th[t].errs # << >>
           /\ th[t].errs[Len(th[t].errs)] = <<c, "timeout">>
      /\ (th[t].returned /\ c \in th[t].ran
            /\ gate[c].err = <<c, "timeout">>) =>
           /\ HasErr(th[t].rerr, <<c, "timeout">>)
           /\ th[t].result[c] = ZeroMetrics
           /\ \A d \in Components \ {c} :
                FlagOf(grabber, d) =>
                  /\ d \in th[t].tried
                  /\ d \notin th[t].failed => ~th[t].result[d].isNil

\* A Grab() has returned whose scheduler gate timed out, with the API server
\* before it and the controller-manager after it collected.
C11_Witness ==
    \E t \in Callers :
      /\ th[t].returned
      /\ Scheduler \in th[t].ran
      /\ gate[Scheduler].err = <<Scheduler, "timeout">>
      /\ HasErr(th[t].rerr, <<Scheduler, "timeout">>)
      /\ ~th[t].result[APIServer].isNil
      /\ ~th[t].result[ControllerManager].isNil

\* C12: every Grab() that was called returns, whatever the requests answer
\* and while another goroutine is in Grab() too, its guards included.
C12_GrabEventuallyReturns ==
    \A t \in Threads : (th[t].op = "Grab") ~> (th[t].op = "idle")

\* A Grab() has returned that found the scheduler's guard running in the
\* other goroutine's Grab() and waited for it.
C12_Witness ==
    \E t \in Threads :
      /\ th[t].returned
      /\ Scheduler \in th[t].waited
      /\ \E u \in Threads \ {t} : Scheduler \in th[u].ran

\* The requests of frame f that node n's kubelet answered with a body that
\* parses.
NodeAnswers(f, n) ==
    { i \in 1..Len(f.log) :
        /\ f.log[i].comp = Kubelets /\ f.log[i].kind = "metrics"
        /\ f.log[i].pod = <<n>> /\ f.log[i].ok /\ f.log[i].body.valid }

\* The errors of a list that name node n.
NodeErrs(errs, n) ==
    { i \in 1..Len(errs) :
        errs[i][1] = Kubelets /\ Len(errs[i]) = 3 /\ errs[i][3] = n }

\* C13: in a returned Grab() whose node listing succeeded, every listed node
\* was processed, KubeletMetrics holds for every node whose kubelet answered
\* the metrics parsed from that answer, and the returned error holds exactly
\* one entry for every node that failed and none for the others.
C13_KubeletFanOutIsolation ==
    \A t \in Callers :
      (th[t].returned /\ Kubelets \in th[t].tried /\ th[t].ni > 0) =>
        /\ th[t].ni = Len(th[t].nodes) + 1
        /\ ~th[t].result[Kubelets].isNil
        /\ \A k \in 1..Len(th[t].nodes) :
             LET n == th[t].nodes[k].name
                 ans == NodeAnswers(th[t], n)
             IN IF ans # {}
                THEN /\ n \in DOMAIN th[t].result[Kubelets].m
                     /\ ~th[t].result[Kubelets].m[n].isNil
                     /\ \E i \in ans : th[t].result[Kubelets].m[n].from =
                                          th[t].log[i].body.id
                     /\ NodeErrs(th[t].rerr, n) = {}
                ELSE Cardinality(NodeErrs(th[t].rerr, n)) = 1

\* A Grab() has returned that listed three nodes, of which the second's
\* kubelet did not answer and the first's and the third's did.
C13_Witness ==
    \E t \in Callers :
      /\ th[t].returned
      /\ Len(th[t].nodes) = 3
      /\ \A k \in 1..3 : th[t].nodes[k].port = 10250
      /\ NodeAnswers(th[t], 1) # {} /\ NodeAnswers(th[t], 3) # {}
      /\ NodeAnswers(th[t], 2) = {}
      /\ HasErr(th[t].rerr, <<Kubelets, "fetch", 2>>)
      /\ ~th[t].result[Kubelets].m[3].isNil

\* C14: in Grab(), the field of a single component of which a readiness
\* wait, a request or a parse failed, or of which an error was recorded, is
\* at its zero value; a field is not zero only if the component's GrabFromX
\* was entered in this call and returned without error.
C14_ErrorLeavesFieldZero ==
    \A t \in Callers : \A c \in Single :
      /\ c \in th[t].failed => th[t].result[c] = ZeroMetrics
      /\ c \in ErrComps(th[t].errs) => th[t].result[c] = ZeroMetrics
      /\ th[t].result[c] # ZeroMetrics =>
           /\ c \in th[t].tried
           /\ c \notin th[t].failed
           /\ c \notin ErrComps(th[t].errs)
           /\ th[t].last = c => th[t].ret.err = NoErr

\* A Grab() has returned in which the controller-manager's answer did not
\* parse: its field is zero, the scheduler's before it is not.
C14_Witness ==
    \E t \in Callers :
      /\ th[t].returned
      /\ HasErr(th[t].rerr, <<ControllerManager, "parse">>)
      /\ th[t].result[ControllerManager] = ZeroMetrics
      /\ th[t].result[Scheduler] # ZeroMetrics
      /\ th[t].result[ClusterAutoscaler] # ZeroMetrics

\* The metrics requests frame f made to c outside the guard.
Fetches(f, c) ==
    { i \in 1..Len(f.log) :
        f.log[i].comp = c /\ f.log[i].kind = "metrics" /\ ~f.log[i].inGate }

\* C15: a metrics request is made to a gated component outside its guard, and
\* metrics parsed from an answer are returned for it, only after the guard's
\* readiness check has succeeded, and for the pod that check was made on.
C15_NoFetchBeforeReady ==
    \A t \in Callers : \A c \in Gated :
      /\ \A i \in Fetches(th[t], c) :
           /\ gate[c].outcome = "ok"
           /\ gate[c].pod = th[t].log[i].pod
      /\ (th[t].last = c /\ th[t].ret.err = NoErr
            /\ th[t].ret.metrics.from # << >>) =>
           gate[c].outcome = "ok"

\* C16: a GrabFromX that ran the guard and whose probe was answered makes one
\* more request after the guard, and the metrics it returns are parsed from
\* the answer to that request, never from the answer to the probe.
C16_GateProbeDiscarded ==
    \A t \in Callers : \A c \in Gated :
      (th[t].last = c /\ c \in th[t].ran
         /\ \E i \in Probes(th[t], c) : th[t].log[i].ok) =>
        /\ Cardinality(Fetches(th[t], c)) = 1
        /\ th[t].ret.err = NoErr =>
             /\ \E i \in Fetches(th[t], c) :
                  th[t].ret.metrics.from = th[t].log[i].body.id
             /\ \A i \in Probes(th[t], c) :
                  th[t].ret.metrics.from # th[t].log[i].body.id

\* The place of a component in the order API server, scheduler,
\* controller-manager, snapshot-controller, cluster-autoscaler, kubelets.
Place(c) ==
    CASE c = "APIServer" -> 1
      [] c = "Scheduler" -> 2
      [] c = "ControllerManager" -> 3
      [] c = "SnapshotController" -> 4
      [] c = "ClusterAutoscaler" -> 5
      [] c = "Kubelets" -> 6

\* A frame is in the middle of a component's attempt.
InAttempt(f) == f.op = "Grab" /\ f.cpc \notin {"start", "none"}

\* In every state of a Grab(): every enabled component placed before one
\* that was entered was entered too, at most the last entered one is still
\* in progress, and the requests on record are that one's.
OrderedSoFar ==
    \A t \in Callers :
      th[t].op = "Grab" =>
        /\ \A c \in th[t].tried : \A d \in Components :
             (FlagOf(grabber, d) /\ Place(d) < Place(c)) => d \in th[t].tried
        /\ InAttempt(th[t]) =>
             /\ th[t].cur \in th[t].tried
             /\ \A d \in th[t].tried : Place(d) <= Place(th[t].cur)
        /\ \A c \in LogComps(th[t].log) : \A d \in th[t].tried :
             Place(d) <= Place(c)

\* In every step of a Grab(): a component is entered only when none is in
\* progress, and it is placed after all those entered before.
OrderedStep ==
    \A t \in Callers :
      (th[t].op = "Grab" /\ th'[t].calls = th[t].calls) =>
        /\ InAttempt(th[t]) => th'[t].tried = th[t].tried
        /\ \A c \in th'[t].tried \ th[t].tried :
             \A d \in th[t].tried : Place(d) < Place(c)

\* C17: within one Grab() the enabled components are attempted strictly in
\* the order API server, scheduler, controller-manager, snapshot-controller,
\* cluster-autoscaler, kubelets: none starts before the one before it has
\* finished, and the kubelets start after all the others.
C17_StrictOrder == []OrderedSoFar /\ [][OrderedStep]_vars

\* A Grab() is in the loop over the nodes, having entered the API server,
\* the three gated components and the cluster autoscaler before.
C17_Witness ==
    \E t \in Callers :
      /\ th[t].op = "Grab" /\ th[t].cur = Kubelets /\ th[t].cpc = "nodes"
      /\ th[t].tried = Components

\* The pod and port GrabFromSnapshotController is to ask, given its arguments.
Target(a) ==
    [ pod |-> IF a.podName = << >> THEN grabber.snapshotController
              ELSE a.podName,
      port |-> IF a.port = 0 THEN 9102 ELSE a.port ]

\* C18: every readiness wait, gate probe and metrics fetch of a
\* GrabFromSnapshotController(podName, port) goes to the given pod and port
\* where they are given, and to the pod located at construction and port 9102
\* where podName is empty or port is 0.
C18_SnapshotOverrides ==
    \A t \in Callers :
      \A i \in 1..Len(th[t].log) :
        th[t].log[i].comp = SnapshotController =>
          /\ th[t].log[i].pod = Target(th[t].arg).pod
          /\ th[t].log[i].ns = "kube-system"
          /\ th[t].log[i].kind = "metrics" =>
               th[t].log[i].port = Target(th[t].arg).port

\* A GrabFromSnapshotController with another pod and no port has run the
\* guard and returned: it waited for that pod, probed it and fetched from it,
\* at port 9102.
C18_Witness ==
    \E t \in Callers :
      /\ th[t].last = SnapshotController
      /\ th[t].op = "idle"
      /\ th[t].arg = [podName |-> OtherPod, port |-> 0]
      /\ \E i \in 1..Len(th[t].log) :
           th[t].log[i].kind = "ready" /\ th[t].log[i].pod = OtherPod
      /\ Probes(th[t], SnapshotController) # {}
      /\ \E i \in Fetches(th[t], SnapshotController) :
           th[t].log[i].pod = OtherPod /\ th[t].log[i].port = 9102

\* A cancelled Grab() that has returned gave its caller an error and nothing
\* collected.
CancelledReturnsNothing ==
    \A t \in Callers :
      (th[t].returned /\ th[t].cancelled) =>
        th[t].rerr # NoErr /\ th[t].result = ZeroCollection

\* A cancelled Grab() makes no wait and no request any more.
CancelledStops ==
    \A t \in Callers :
      (th[t].cancelled /\ th'[t].calls = th[t].calls) =>
        Len(th'[t].log) <= Len(th[t].log)

\* C19: once its caller has cancelled a Grab(), no poll iteration, wait or
\* request is made on its behalf any more, and it returns an error and no
\* Collection.
C19_CancelStopsGrab == []CancelledReturnsNothing /\ [][CancelledStops]_vars

\* A step leaves the flags, the pod names and the external client of the
\* Grabber as they are, and moves no guard back: an unused guard stays or
\* starts running, a running one stays or is done, a done one stays done.
GrabberFrame ==
    /\ grabber' = grabber
    /\ \A c \in Gated :
         /\ once[c] = "unused" => once'[c] \in {"unused", "running"}
         /\ once[c] = "running" => once'[c] \in {"running", "done"}
         /\ once[c] = "done" => once'[c] = "done"
    /\ \A c \in Gated : gate'[c].runs >= gate[c].runs

\* C20: after construction no call changes the six flags or the three pod
\* names of the Grabber; the calls change the three guards only, each of
\* which is used at most once and is never unused again.
C20_ComponentSetFixed ==
    /\ [](\A c \in Gated : /\ gate[c].runs <= 1
                           /\ gate[c].runs = 0 <=> once[c] = "unused")
    /\ [][GrabberFrame]_vars

\* Both goroutines have made calls, all three guards are done, and the
\* Grabber still has its three flags and pod names.
C20_Witness ==
    /\ \A c \in Gated : once[c] = "done" /\ gate[c].runs = 1
    /\ \A t \in Callers : th[t].calls = MaxGrabs /\ th[t].op = "idle"
    /\ \A c \in Gated : FlagOf(grabber, c) /\ Located(grabber, c) # EmptyName

\* The requests of frame f to the API server that failed.
FailedAPIRequests(f) ==
    { i \in 1..Len(f.log) : f.log[i].comp = APIServer /\ ~f.log[i].ok }

\* C22: a GrabFromAPIServer whose metrics request failed returns a non-nil
\* error, and the Grab() it was called from has an API-server entry in the
\* error it returns.
C22_APIServerFailureReported ==
    \A t \in Callers :
      /\ (th[t].last = APIServer /\ FailedAPIRequests(th[t]) # {}) =>
           /\ th[t].ret.err # NoErr
           /\ th[t].op = "Grab" => APIServer \in ErrComps(th[t].errs)
      /\ (th[t].returned /\ APIServer \in th[t].failed) =>
           APIServer \in ErrComps(th[t].rerr)

\* C23: a Grabber built without an external client has the cluster
\* autoscaler disabled: Grab() does not enter GrabFromClusterAutoscaler, makes
\* no cluster-autoscaler request and records no cluster-autoscaler error.
C23_NoExternalClientNoAutoscaler ==
    ~grabber.externalClient =>
      \A t \in Callers :
        /\ ClusterAutoscaler \notin th[t].tried
        /\ ClusterAutoscaler \notin LogComps(th[t].log)
        /\ ClusterAutoscaler \notin ErrComps(th[t].errs)
        /\ th[t].result[ClusterAutoscaler] = ZeroMetrics

\* A recorded pod name is the name of a listed pod that matches the pattern,
\* or empty, and empty exactly when no listed pod matches.
NameLocated(name, lit) ==
    /\ name # << >> =>
         \E i \in 1..Len(args.podList) :
           args.podList[i] = name /\ MatchString(lit, name)
    /\ name = << >> <=> ~Listed(lit)

\* C25: after a NewMetricsGrabber whose listing succeeded, each of the three
\* recorded pod names is empty or a listed pod that matches the component's
\* pattern, and is empty exactly when no listed pod matches it.
C25_NamesAreListedMatches ==
    (args.called /\ args.listOK) =>
      /\ NameLocated(grabber.kubeScheduler, "kube-scheduler-")
      /\ NameLocated(grabber.kubeControllerManager, "kube-controller-manager-")
      /\ NameLocated(grabber.snapshotController, "volume-snapshot-controller")

\* The loop was left after the second of three pods: the first matches the
\* scheduler's and the controller-manager's patterns, the second is the
\* snapshot controller, and the third, a scheduler pod, was not looked at.
C25_Witness ==
    /\ args.called /\ args.listOK
    /\ Len(args.podList) = 3
    /\ args.podList[3] = <<"kube-scheduler-", "m2">>
    /\ grabber.kubeScheduler = args.podList[1]
    /\ grabber.kubeControllerManager = args.podList[1]
    /\ grabber.snapshotController = args.podList[2]

\* The requests of frame f to the kubelet of node n.
NodeRequests(f, n) ==
    { i \in 1..Len(f.log) :
        /\ f.log[i].comp = Kubelets /\ f.log[i].kind = "metrics"
        /\ f.log[i].pod = <<n>> }

\* The node listing of frame f failed.
ListNodesFailed(f) ==
    \E i \in 1..Len(f.log) : f.log[i].kind = "listnodes" /\ ~f.log[i].ok

\* The entries of a list of errors that are the kubelets'.
KubeletErrs(errs) == { i \in 1..Len(errs) : errs[i][1] = Kubelets }

\* C26: after a Grab() with the kubelets enabled, KubeletMetrics is a non-nil
\* map with one key per listed node, and none and one error when the listing
\* failed; a node whose port is not in 1..65535 got no request, a zero entry
\* and one error, a node whose request failed a zero entry and one error.
\* After a Grab() with the kubelets disabled the map is nil.
C26_KubeletMapShape ==
    \A t \in Callers :
      th[t].returned =>
        IF ~grabber.grabFromKubelets THEN th[t].result[Kubelets] = NilMap
        ELSE LET f == th[t]
                 km == f.result[Kubelets]
             IN /\ ~km.isNil
                /\ IF ListNodesFailed(f)
                   THEN /\ DOMAIN km.m = {}
                        /\ Cardinality(KubeletErrs(f.rerr)) = 1
                   ELSE /\ DOMAIN km.m =
                             { f.nodes[k].name : k \in 1..Len(f.nodes) }
                        /\ \A k \in 1..Len(f.nodes) :
                             LET n == f.nodes[k].name
                                 reqs == NodeRequests(f, n)
                             IN /\ Cardinality(reqs) <= 1
                                /\ f.nodes[k].port \notin 1..65535 =>
                                     /\ reqs = {}
                                     /\ km.m[n] = ZeroMetrics
                                     /\ Cardinality(NodeErrs(f.rerr, n)) = 1
                                /\ (\E i \in reqs : ~f.log[i].ok) =>
                                     /\ km.m[n] = ZeroMetrics
                                     /\ Cardinality(NodeErrs(f.rerr, n)) = 1

\* A Grab() has returned that listed three nodes: the first without a
\* kubelet port, the second's request failed, the third's was answered.
C26_Witness ==
    \E t \in Callers :
      /\ th[t].returned
      /\ Len(th[t].nodes) = 3
      /\ th[t].nodes[1].port = 0
      /\ \E i \in NodeRequests(th[t], 2) : ~th[t].log[i].ok
      /\ NodeAnswers(th[t], 3) # {}
      /\ DOMAIN th[t].result[Kubelets].m = {1, 2, 3}

\* The requests of frame f to the cluster autoscaler.
AutoscalerRequests(f) ==
    { i \in 1..Len(f.log) : f.log[i].comp = ClusterAutoscaler }

\* C27: a GrabFromClusterAutoscaler on a Grabber without external client
\* and without both the scheduler's and the controller-manager's pod returns
\* an error and makes no request; any other makes one request, for the
\* metrics of pod cluster-autoscaler at port 8085, through the external
\* client in namespace kubemark if there is one and through the primary
\* client in kube-system if there is none.
C27_AutoscalerTarget ==
    [][\A t \in Callers :
        (ClusterAutoscaler \notin th[t].tried
           /\ ClusterAutoscaler \in th'[t].tried) =>
          LET f == th'[t]
              reqs == AutoscalerRequests(f)
          IN /\ f.last = ClusterAutoscaler
             /\ IF /\ ~grabber.externalClient
                    /\ ~(grabber.kubeScheduler # << >>
                           /\ grabber.kubeControllerManager # << >>)
                THEN /\ f.log = << >>
                     /\ f.ret.err # NoErr
                     /\ f.ret.metrics = ZeroMetrics
                ELSE /\ Len(f.log) = 1
                     /\ reqs = {1}
                     /\ f.log[1].kind = "metrics"
                     /\ f.log[1].pod = <<"cluster-autoscaler">>
                     /\ f.log[1].port = 8085
                     /\ f.log[1].ext = grabber.externalClient
                     /\ f.log[1].ns = IF grabber.externalClient
                                       THEN "kubemark" ELSE "kube-system"
       ]_vars

\* A GrabFromClusterAutoscaler has asked through the external client of a
\* Grabber that located no control-plane pod.
C27_Witness ==
    \E t \in Callers :
      /\ th[t].last = ClusterAutoscaler
      /\ grabber.externalClient
      /\ grabber.kubeScheduler = << >>
      /\ \E i \in AutoscalerRequests(th[t]) :
           th[t].log[i].ns = "kubemark" /\ th[t].log[i].ok

\* The NUMA nodes that must hold something of R: every CPU's, and every
\* device's that is not -1.
NodesHeld(R) ==
    { R.CPUToNUMANode[c] : c \in DOMAIN R.CPUToNUMANode }
      \cup ({ R.PCIDevsToNUMANode[d] : d \in DOMAIN R.PCIDevsToNUMANode }
              \ {-1})

PairsOf(text) ==
    { i \in 1..Len(text) : Index(text[i], "=") # 0 }
NamesOf(text) == { SplitN2(text[i], "=")[1] : i \in PairsOf(text) }

\* The value of the last line of text that names the variable.
ValueOf(text, name) ==
    LET at == { i \in PairsOf(text) : SplitN2(text[i], "=")[1] = name }
        last == CHOOSE i \in at : \A j \in at : j <= i
    IN SplitN2(text[last], "=")[2]

\* Every line of the text is empty or NAME=VALUE.
ParsesIntoPairs(text) ==
    \A i \in 1..Len(text) : text[i] = << >> \/ i \in PairsOf(text)

\* The CPUs CPULIST_ALLOWED yields.
AllowedCPUs(text) ==
    IF cpuListAllowedEnvVar \in NamesOf(text)
    THEN cpusetParse(ValueOf(text, cpuListAllowedEnvVar)).cpus
    ELSE {}

\* The NUMA nodes whose cpulist holds the CPU.
NodesOfCPU(sys, cpu) ==
    { n \in 0..(Len(sys.cpulist) - 1) :
        cpu \in cpusetParse(sys.cpulist[n + 1]).cpus }

\* The devices the PCIDEVICE_ variables yield: those they name whose
\* numa_node was read.
DevicesOf(text, sys) ==
    LET names == { name \in NamesOf(text) : HasPrefix(name, pciDevPrefix) }
        named == UNION { { Split(ValueOf(text, name), ",")[i] :
                             i \in 1..Len(Split(ValueOf(text, name), ",")) } :
                         name \in names }
    IN { dev \in named : Atoi(Cat(sys.numa_node, dev)).err = "nil" }

\* The resources the text and the files describe.
ResourcesOf(text, sys) ==
    [ CPUToNUMANode |->
        [ cpu \in { c \in AllowedCPUs(text) : NodesOfCPU(sys, c) # {} } |->
            CHOOSE n \in NodesOfCPU(sys, cpu) : TRUE ],
      PCIDevsToNUMANode |->
        [ dev \in DevicesOf(text, sys) |-> Atoi(sys.numa_node[dev]).n ] ]

AlignedIn(R) ==
    \A cpuOrder \in Orders(DOMAIN R.CPUToNUMANode),
       devOrder \in Orders(DOMAIN R.PCIDevsToNUMANode) :
      CheckAlignment(R, cpuOrder, devOrder)

\* CPULIST_ALLOWED yields a CPU and every allowed CPU is on the NUMA map.
CPUsFound(text, sys) ==
    /\ AllowedCPUs(text) # {}
    /\ \A cpu \in AllowedCPUs(text) : NodesOfCPU(sys, cpu) # {}

Accepted ==
    { f \in LogFormats :
        /\ Validate([LogFormat |-> f], logs.logRegistry) = "nil"
        /\ Get([LogFormat |-> f], logs.logRegistry) = "nil" }

\* C24: from AddFlags on the registry is frozen and gains no format, the
\* formats the help text of --logging-format names are the values of
\* LogFormat that Validate() and Get() accept, and every Validate() and
\* Get() made since has accepted just those.
C24_FrozenAfterAddFlags ==
    /\ [](logs.added =>
            /\ logs.logRegistry.frozen
            /\ Permitted(logs.help) = Accepted
            /\ (logs.last.added /\ logs.last.call \in {"Validate", "Get"}) =>
                 (logs.last.err = "nil" <=>
                    logs.last.format \in Permitted(logs.help)))
    /\ [][logs.added =>
            logs'.logRegistry.registry = logs.logRegistry.registry]_vars

\* After AddFlags, LogFormat holds a format the help text does not name,
\* and the registry has just refused to register that format.
C24_Witness ==
    /\ logs.added
    /\ Permitted(logs.help) # {}
    /\ logs.o.LogFormat \notin Permitted(logs.help)
    /\ logs.last = [call |-> "Register", format |-> logs.o.LogFormat,
                     err |-> "frozen", added |-> TRUE]

\* The count of a series; 0 if the vector does not hold it.
CountOf(vec, labels) == IF labels \in DOMAIN vec THEN vec[labels] ELSE 0

\* vec is old with the series of labels raised by one, and nothing else.
RaisedAt(old, vec, labels) ==
    /\ DOMAIN vec = DOMAIN old \cup {labels}
    /\ \A l \in DOMAIN vec :
         vec[l] = CountOf(old, l) + (IF l = labels THEN 1 ELSE 0)

====
